---- MODULE Spec2Model ----
(***************************************************************************)
(* Two-stage structured extraction: the sequential orchestrator            *)
(* (scripts/run_two_stage_structured_sequential.py), the per-document      *)
(* Stage-1 / Stage-2 workers (scripts/run_two_stage_structured_pipeline.py)*)
(* and the OpenAI-compatible client (openai_compat.py).                    *)
(*                                                                         *)
(* The output directory is modelled by the files the stages test and       *)
(* write; a worker is a subprocess whose steps are its HTTP calls and its  *)
(* file writes, in source order.                                           *)
(***************************************************************************)
EXTENDS Integers, Sequences, FiniteSets, TLC

\* ------------------------------------------------------------------ bounds
\* Raw non-blank lines / extracted KVT4 lines of one Stage-2 completion.
MaxRaw == 3
\* Documents attempted, summed over the orchestrator runs on one directory.
MaxDocRuns == 2
\* chat() calls of one client, and the distinct completion texts of a server.
MaxChatCalls == 2
MaxText == 3
\* Lines of one extracted Stage-2 completion handed to the post-processing.
MaxLines == 2

\* ------------------------------------------------------- program constants
\* MEDGEMMA_STAGE2_RETRY_VALID_RATE_THRESHOLD default 0.45, as a percentage.
RetryValidRateThresholdPct == 45
\* MEDGEMMA_STAGE2_RETRY_MIN_RAW_LINES default.
RetryMinRawLinesDefault == 20
\* len(VALID_CLUSTERS) of the risk engine.
NumClusters == 9

\* The cohort: document 1 is a short note, document 2 exceeds
\* MEDGEMMA_MAX_TEXT_CHARS (so that the trim strategies apply to it).
Docs == {1, 2}
LongNote == {2}
\* Documents of the cohort that have a ground_truth_<hadm>.json.
HasGroundTruth == {1}

\* hadm id lists an orchestrator run can be asked for (after _unique_keep_order).
RunIdLists == {<<1, 2>>, <<1>>}

\* Values MEDGEMMA_STAGE2_RETRY_MIN_RAW_LINES takes in the environment.
MinRawLinesEnv == {MaxRaw, RetryMinRawLinesDefault}

VARIABLES
    disk,            \* [Docs -> per-document directory]
    hadm_ids_json,   \* <out_dir>/hadm_ids.json (<< >> when absent)
    out_files,       \* timings CSV and summary JSON of the orchestrator
    args,            \* command line of the current orchestrator run
    opc,             \* position of the driver (orchestrator / demo service)
    idx,             \* loop index into args.hadm_ids
    hadm_ids_stable, \* main(): hadm_ids_stable
    ok, skipped, failed,
    timings_rows,
    lora_scale,      \* main(): lora_scale ("none" for None)
    spc,             \* position of the worker subprocess
    sdoc,            \* document the worker was started for (0: none)
    s1,              \* locals of run_stage1
    s2,              \* locals of run_stage2
    svc,             \* locals / result of the demo service
    chat,            \* locals of OpenAICompatibleChatClient.chat
    hist,            \* run counter (bound) and history observed by the properties
    kvt,             \* KVT4 post-processing of one line list (kvt_utils, sanitizer)
    eng,             \* one evaluation of the readmission risk engine
    inv,             \* last invocation that wrote <out_dir>/hadm_ids.json
    req,             \* Stage-2 requests of two runs over one document
    url,             \* one call of OpenAICompatibleChatClient._normalize_urls
    con              \* two orchestrators sharing one output directory

orchVars == <<args, opc, idx, hadm_ids_stable, ok, skipped, failed, timings_rows, lora_scale>>
diskVars == <<disk, hadm_ids_json, out_files>>
subVars  == <<spc, sdoc, s1, s2>>
fnVars   == <<kvt, eng, inv, req, url, con>>
vars == <<disk, hadm_ids_json, out_files, args, opc, idx, hadm_ids_stable, ok, skipped,
          failed, timings_rows, lora_scale, spc, sdoc, s1, s2, svc, chat, hist, kvt, eng,
          inv, req, url, con>>

\* ------------------------------------------------------------------ helpers
Range(s) == {s[i] : i \in 1..Len(s)}

IsSubset(a, b) == Range(a) \subseteq Range(b)

EmptyDir ==
    [stage1_json |-> FALSE, stage1_normalized |-> FALSE, stage1_md |-> FALSE,
     stage1_raw |-> FALSE, stage1_facts |-> FALSE,
     stage1_meta |-> "absent", stage1_error |-> FALSE,
     stage2_raw |-> "absent", stage2_raw_retry1 |-> FALSE,
     stage2_facts |-> "absent", stage2_normalized |-> "absent",
     stage2_metrics |-> "absent"]

NoArgs ==
    [hadm_ids |-> << >>, continue_on_error |-> FALSE, overwrite_stage1 |-> FALSE,
     overwrite_stage2 |-> FALSE, lora_control_url |-> FALSE]

\* The command lines exercised: --continue-on-error and --lora-control-url in
\* every combination, each overwrite flag on its own.
ArgsSet ==
    {a \in [hadm_ids : RunIdLists, continue_on_error : BOOLEAN, overwrite_stage1 : BOOLEAN,
            overwrite_stage2 : BOOLEAN, lora_control_url : BOOLEAN] :
        /\ a.overwrite_stage1 =>
              ~a.overwrite_stage2 /\ ~a.continue_on_error /\ ~a.lora_control_url
        /\ a.overwrite_stage2 =>
              ~a.overwrite_stage1 /\ ~a.continue_on_error /\ ~a.lora_control_url}

S1Idle == [overwrite |-> FALSE, strat |-> 0, raw_str |-> "empty",
           parse_ok |-> FALSE, did_hygiene_retry |-> FALSE, rf |-> 0,
           calls |-> 0, placeholder_calls |-> 0]
S2Idle == [overwrite |-> FALSE, lines |-> 0, raw_valid0 |-> 0,
           raw_total0 |-> 0, min_total |-> 0, low_valid_quality |-> FALSE,
           did_retry |-> FALSE, calls |-> 0]
\* The counts of the retry heuristics are dead once the retry decision is taken.
Settled(r) == [r EXCEPT !.raw_valid0 = 0, !.raw_total0 = 0, !.min_total = 0]
\* Of the locals of run_stage1 the writes of the artifacts read parse_ok.
Parsed(r) == [S1Idle EXCEPT !.overwrite = r.overwrite, !.parse_ok = r.parse_ok]
SvcIdle == [backend_mode |-> "none", stage1_facts |-> "unread", stage2_facts |-> "unread",
            stage1_kvt4 |-> "empty", stage2_kvt4 |-> "empty", normalized_lines |-> "empty",
            risk |-> "unset", present |-> 0, confidence |-> "none", error |-> FALSE]
NoOutFiles == [written |-> FALSE, timings_csv |-> << >>,
               summary |-> [total |-> 0, ok |-> 0, skipped |-> 0, failed |-> 0]]
ChatIdle == [pc |-> "idle", response_format |-> "none", payload |-> "none",
             attempts |-> << >>, sent |-> << >>, text |-> 0,
             response_format_final |-> "none", used_response_format_fallback |-> FALSE,
             fallback_reason |-> "none", calls |-> 0]
NoDisk == [d \in Docs |-> EmptyDir]
HistIdle == [runs |-> 0, killed_doc |-> 0, killed_args |-> NoArgs, resume_doc |-> 0,
             complete0 |-> FALSE, disk0 |-> NoDisk, doc_writes |-> FALSE,
             cross_writes |-> FALSE, requests |-> FALSE, retried |-> FALSE,
             stage2_returned |-> FALSE, adapter |-> "none"]

\* The four artifacts of a finished document.
Complete(dir) ==
    /\ dir.stage1_json /\ dir.stage1_md
    /\ dir.stage2_facts # "absent" /\ dir.stage2_normalized # "absent"

Touched(dir) == dir # EmptyDir

\* ------------------------------------------------- sequential orchestrator
\* --lora-stage1-scale / --lora-stage2-scale defaults.
LoraStage1Scale == "0.0"
LoraStage2Scale == "1.0"

\* _maybe_set_lora: the body of the POST, [] for a scale <= 0.
LoraBody(want) == IF want \in {"0.0", "-1.0"} THEN "[]" ELSE want

LoraPostsFirstOnly(control_url, want, last_scale) ==
    control_url /\ last_scale = "none"

\* _maybe_set_lora: TRUE when it POSTs to /lora-adapters.
LoraPosts(control_url, want, last_scale) ==
    control_url /\ ~(last_scale # "none" /\ last_scale = want)

\* _safe_load_hadm_ids_json followed by the choice of hadm_ids_stable.
StableIds(hadm_ids, existing_hadm_ids) ==
    IF existing_hadm_ids # << >> /\ IsSubset(hadm_ids, existing_hadm_ids)
    THEN existing_hadm_ids
    ELSE hadm_ids

Hadm == args.hadm_ids[idx]

SkipDocumentNever(dir, overwrite_stage2) == FALSE

\* if stage2_facts.exists() and not args.overwrite_stage2: skipped
SkipDocument(dir, overwrite_stage2) == dir.stage2_facts # "absent" /\ ~overwrite_stage2

\* if args.overwrite_stage1 or not stage1_md.exists(): run Stage-1
NeedStage1(dir, overwrite_stage1) == overwrite_stage1 \/ ~dir.stage1_md

Row(hadm, status) == [hadm_id |-> hadm, status |-> status]

Running == opc \in {"loop", "stage1_wait", "stage2_pre", "stage2_wait"}

\* main(), argument parsing up to the document loop.
main_start(a) ==
    /\ opc \in {"idle", "done", "aborted", "killed"}
    /\ hist.runs + Len(a.hadm_ids) <= MaxDocRuns
    /\ args' = a
    /\ hadm_ids_stable' = StableIds(a.hadm_ids, hadm_ids_json)
    /\ hadm_ids_json' = hadm_ids_stable'
    /\ ok' = 0 /\ skipped' = 0 /\ failed' = 0
    /\ lora_scale' = "none"
    /\ timings_rows' = << >>
    /\ idx' = 1
    /\ opc' = "loop"
    /\ LET same == hist.killed_doc # 0 /\ a = hist.killed_args
           comp == \A i \in 1..Len(a.hadm_ids) : Complete(disk[a.hadm_ids[i]])
       IN hist' = [runs |-> hist.runs + Len(a.hadm_ids), killed_doc |-> 0, killed_args |-> NoArgs,
                   resume_doc |-> IF same THEN hist.killed_doc ELSE 0,
                   complete0 |-> comp,
                   disk0 |-> IF comp THEN disk ELSE NoDisk,
                   doc_writes |-> FALSE, cross_writes |-> TRUE, requests |-> FALSE,
                   retried |-> FALSE, stage2_returned |-> FALSE, adapter |-> "none"]
    /\ UNCHANGED <<disk, out_files, spc, sdoc, s1, s2, svc, chat>>
    /\ UNCHANGED fnVars

\* except subprocess.CalledProcessError: the failed row, then stop or go on.
main_failed ==
    /\ failed' = failed + 1
    /\ timings_rows' = Append(timings_rows, Row(Hadm, "failed"))
    /\ hadm_ids_json' = hadm_ids_stable
    /\ IF args.continue_on_error
       THEN opc' = "loop" /\ idx' = idx + 1
       ELSE opc' = "aborted" /\ idx' = idx

\* Loop head: skip, or set the Stage-1 adapter scale and start Stage-1, or
\* reuse stage1.md.
main_loop(post_ok) ==
    /\ opc = "loop"
    /\ idx <= Len(args.hadm_ids)
    /\ IF SkipDocument(disk[Hadm], args.overwrite_stage2)
       THEN /\ skipped' = skipped + 1
            /\ timings_rows' = Append(timings_rows, Row(Hadm, "skipped"))
            /\ hadm_ids_json' = hadm_ids_stable
            /\ idx' = idx + 1
            /\ UNCHANGED <<opc, lora_scale, spc, sdoc, s1, hist>>
       ELSE IF NeedStage1(disk[Hadm], args.overwrite_stage1)
       THEN IF LoraPosts(args.lora_control_url, LoraStage1Scale, lora_scale)
            THEN /\ hist' = [hist EXCEPT !.requests = TRUE,
                                         !.adapter = LoraBody(LoraStage1Scale)]
                 /\ IF post_ok
                    THEN /\ lora_scale' = LoraStage1Scale
                         /\ opc' = "stage1_wait"
                         /\ spc' = "s1_start" /\ sdoc' = Hadm
                         /\ s1' = S1Idle
                    ELSE /\ opc' = "aborted"
                         /\ UNCHANGED <<lora_scale, spc, sdoc, s1>>
                 /\ UNCHANGED <<skipped, timings_rows, hadm_ids_json, idx>>
            ELSE /\ opc' = "stage1_wait"
                 /\ spc' = "s1_start" /\ sdoc' = Hadm
                 /\ s1' = S1Idle
                 /\ UNCHANGED <<lora_scale, hist, skipped, timings_rows, hadm_ids_json, idx>>
       ELSE /\ opc' = "stage2_pre"
            /\ UNCHANGED <<lora_scale, hist, skipped, timings_rows, hadm_ids_json, idx,
                           spc, sdoc, s1>>
    /\ UNCHANGED <<disk, out_files, args, hadm_ids_stable, ok, failed, s2, svc, chat>>
    /\ UNCHANGED fnVars

\* _run(stage1_cmd) returned.
main_stage1_done ==
    /\ opc = "stage1_wait"
    /\ spc \in {"exit0", "exit1"}
    /\ IF spc = "exit0"
       THEN /\ opc' = "stage2_pre"
            /\ UNCHANGED <<failed, timings_rows, hadm_ids_json, idx>>
       ELSE main_failed
    /\ spc' = "none" /\ sdoc' = 0 /\ s1' = S1Idle
    /\ UNCHANGED <<disk, out_files, args, hadm_ids_stable, ok, skipped, lora_scale,
                   s2, svc, chat, hist>>
    /\ UNCHANGED fnVars

\* Set the Stage-2 adapter scale and start Stage-2.
main_stage2_pre(post_ok) ==
    /\ opc = "stage2_pre"
    /\ IF LoraPosts(args.lora_control_url, LoraStage2Scale, lora_scale)
       THEN /\ hist' = [hist EXCEPT !.requests = TRUE,
                                    !.adapter = LoraBody(LoraStage2Scale)]
            /\ IF post_ok
               THEN /\ lora_scale' = LoraStage2Scale
                    /\ opc' = "stage2_wait"
                    /\ spc' = "s2_start" /\ sdoc' = Hadm
                    /\ s2' = [S2Idle EXCEPT !.overwrite = args.overwrite_stage2]
               ELSE /\ opc' = "aborted"
                    /\ UNCHANGED <<lora_scale, spc, sdoc, s2>>
       ELSE /\ opc' = "stage2_wait"
            /\ spc' = "s2_start" /\ sdoc' = Hadm
            /\ s2' = [S2Idle EXCEPT !.overwrite = args.overwrite_stage2]
            /\ UNCHANGED <<lora_scale, hist>>
    /\ UNCHANGED <<disk, hadm_ids_json, out_files, args, idx, hadm_ids_stable, ok, skipped,
                   failed, timings_rows, s1, svc, chat>>
    /\ UNCHANGED fnVars

\* _run(stage2_cmd) returned.
main_stage2_done ==
    /\ opc = "stage2_wait"
    /\ spc \in {"exit0", "exit1"}
    /\ IF spc = "exit0"
       THEN /\ ok' = ok + 1
            /\ timings_rows' = Append(timings_rows, Row(Hadm, "ok"))
            /\ hadm_ids_json' = hadm_ids_stable
            /\ opc' = "loop" /\ idx' = idx + 1
            /\ UNCHANGED failed
       ELSE main_failed /\ UNCHANGED ok
    /\ spc' = "none" /\ sdoc' = 0 /\ s2' = S2Idle
    /\ UNCHANGED <<disk, out_files, args, hadm_ids_stable, skipped, lora_scale,
                   s1, svc, chat, hist>>
    /\ UNCHANGED fnVars

\* After the loop: timings CSV and summary JSON.
main_finish ==
    /\ opc = "loop"
    /\ idx > Len(args.hadm_ids)
    /\ out_files' = [written |-> TRUE, timings_csv |-> timings_rows,
                     summary |-> [total |-> Len(args.hadm_ids), ok |-> ok,
                                  skipped |-> skipped, failed |-> failed]]
    /\ opc' = "done"
    /\ UNCHANGED <<disk, hadm_ids_json, args, idx, hadm_ids_stable, ok, skipped, failed,
                   timings_rows, lora_scale, spc, sdoc, s1, s2, svc, chat, hist>>
    /\ UNCHANGED fnVars

\* The run is killed (SIGINT / SIGKILL) between two steps; the files written
\* so far stay.
interrupt ==
    /\ Running
    /\ opc' = "killed"
    /\ spc' = "none" /\ sdoc' = 0 /\ s1' = S1Idle /\ s2' = S2Idle
    /\ args' = NoArgs /\ idx' = 1 /\ hadm_ids_stable' = << >>
    /\ ok' = 0 /\ skipped' = 0 /\ failed' = 0
    /\ timings_rows' = << >> /\ lora_scale' = "none"
    /\ LET in_doc == opc \in {"stage1_wait", "stage2_pre", "stage2_wait"}
           \* (the resume case is followed for runs without optional flags)
           partial == /\ in_doc /\ Touched(disk[Hadm]) /\ ~Complete(disk[Hadm])
                      /\ args = [NoArgs EXCEPT !.hadm_ids = args.hadm_ids]
       IN hist' = [HistIdle EXCEPT !.runs = hist.runs,
                                   !.killed_doc = IF partial THEN Hadm ELSE 0,
                                   !.killed_args = IF partial THEN args ELSE NoArgs]
    /\ UNCHANGED <<disk, hadm_ids_json, out_files, svc, chat>>
    /\ UNCHANGED fnVars

\* ------------------------------------------------------------ Stage-1 worker
\* strategies of run_stage1 under the default environment (MEDGEMMA_TRIM_INPUT
\* off, MEDGEMMA_TRIM_STRATEGY=middle, default MEDGEMMA_TRIM_FALLBACK_ORDER).
Strategies(hadm) ==
    IF hadm \in LongNote
    THEN <<"full", "middle", "keyword_window", "head_tail">>
    ELSE <<"full">>

TrimStrategy == "middle"

\* What one Stage-1 model call can return: "" or a text that has / lacks the
\* nine keys (ok) and contains / does not contain "___" (kind).
Stage1Texts ==
    {[kind |-> "empty", ok |-> FALSE]}
        \cup [kind : {"clean", "ph"}, ok : BOOLEAN]

\* ... or the call raises.
Stage1Outcomes == {[kind |-> "raise", ok |-> FALSE]} \cup Stage1Texts

\* History of a model call that is followed by a _write_text when wrote.
Called(wrote) == [hist EXCEPT !.requests = TRUE, !.doc_writes = @ \/ wrote]

\* if "___" in raw_str: placeholder retry; else the baseline fallback test.
\* (baseline: profile sgr_* and STAGE1_SGR_BASELINE_FALLBACK truthy)
BaselineCheck(r, baseline) ==
    IF ~r.parse_ok /\ baseline /\ r.strat # 0 THEN "s1_baseline" ELSE "s1_write_raw"

PlaceholderCheck(r, baseline) ==
    IF r.raw_str = "ph" THEN "s1_placeholder" ELSE BaselineCheck(r, baseline)

\* if not parse_ok and ehr_chars_original > max_chars (and alt_prompt differs).
TrimCheck(r, hadm, baseline) ==
    IF ~r.parse_ok /\ hadm \in LongNote /\ Strategies(hadm)[r.strat] # TrimStrategy
    THEN "s1_trimmed"
    ELSE PlaceholderCheck(r, baseline)

\* OpenAICompatibleChatClient(...), assert_model_available(), hadm_ids.json,
\* meta_stage1.json.
\* run_stage1: hadm_ids.json is left alone when it holds a longer list that
\* includes hadm_ids, else it is overwritten with hadm_ids.
Stage1Ids(hadm_ids, existing_hadm_ids) ==
    IF existing_hadm_ids # << >> /\ Len(existing_hadm_ids) > Len(hadm_ids)
       /\ IsSubset(hadm_ids, existing_hadm_ids)
    THEN existing_hadm_ids
    ELSE hadm_ids

run_stage1_start(available) ==
    /\ spc = "s1_start"
    /\ IF available
       THEN /\ spc' = "s1_check"
            /\ hadm_ids_json' = Stage1Ids(<<sdoc>>, hadm_ids_json)
            /\ hist' = [hist EXCEPT !.requests = TRUE, !.cross_writes = TRUE]
       ELSE /\ spc' = "exit1"
            /\ hist' = [hist EXCEPT !.requests = TRUE]
            /\ UNCHANGED hadm_ids_json
    /\ UNCHANGED <<disk, out_files, sdoc, s1, s2, svc, chat>>
    /\ UNCHANGED orchVars
    /\ UNCHANGED fnVars

\* skip (exists), else enter the strategy loop.
run_stage1_check ==
    /\ spc = "s1_check"
    /\ IF ~s1.overwrite /\ disk[sdoc].stage1_json /\ disk[sdoc].stage1_normalized
          /\ disk[sdoc].stage1_md
       THEN spc' = "exit0" /\ UNCHANGED s1
       ELSE spc' = "s1_strategy" /\ s1' = [s1 EXCEPT !.strat = 1]
    /\ UNCHANGED <<disk, hadm_ids_json, out_files, sdoc, s2, svc, chat, hist>>
    /\ UNCHANGED orchVars
    /\ UNCHANGED fnVars

\* for strat in strategies: the first call that does not raise ends the loop.
run_stage1_strategy(o) ==
    /\ spc = "s1_strategy"
    /\ IF o.kind = "raise"
       THEN IF s1.strat < Len(Strategies(sdoc))
            THEN /\ spc' = "s1_strategy"
                 /\ s1' = [s1 EXCEPT !.strat = s1.strat + 1, !.calls = s1.calls + 1]
            ELSE /\ spc' = "s1_loop_done"
                 /\ s1' = [s1 EXCEPT !.strat = 0, !.raw_str = "empty",
                                     !.calls = s1.calls + 1]
       ELSE /\ spc' = "s1_loop_done"
            /\ s1' = [s1 EXCEPT !.raw_str = o.kind, !.parse_ok = o.ok,
                                !.calls = s1.calls + 1]
    /\ hist' = [hist EXCEPT !.requests = TRUE]
    /\ UNCHANGED <<disk, hadm_ids_json, out_files, sdoc, s2, svc, chat>>
    /\ UNCHANGED orchVars
    /\ UNCHANGED fnVars

\* if not raw_str: stage1_error.json and continue; else choose the retry.
run_stage1_loop_done ==
    /\ spc = "s1_loop_done"
    /\ IF s1.raw_str = "empty"
       THEN /\ disk' = [disk EXCEPT ![sdoc].stage1_error = TRUE]
            /\ hist' = [hist EXCEPT !.doc_writes = TRUE]
            /\ spc' = "exit0"
       ELSE /\ spc' = IF s1.parse_ok /\ s1.raw_str = "ph" THEN "s1_hygiene"
                      ELSE IF ~s1.parse_ok THEN "s1_compact"
                      ELSE PlaceholderCheck(s1, FALSE)
            /\ UNCHANGED <<disk, hist>>
    /\ s1' = [s1 EXCEPT !.rf = 1]
    /\ UNCHANGED <<hadm_ids_json, out_files, sdoc, s2, svc, chat>>
    /\ UNCHANGED orchVars
    /\ UNCHANGED fnVars

\* Hygiene retry (stage1_raw_try0.txt, one call).
\* (parse_ok holds from here on: the baseline fallback test cannot pass)
run_stage1_hygiene(o) ==
    /\ spc = "s1_hygiene"
    /\ LET r == [s1 EXCEPT !.did_hygiene_retry = TRUE, !.calls = s1.calls + 1,
                           !.placeholder_calls = s1.placeholder_calls + 1]
       IN s1' = IF o.ok /\ o.kind = "clean"
                THEN [r EXCEPT !.raw_str = "clean", !.parse_ok = TRUE]
                ELSE r
    /\ spc' = PlaceholderCheck(s1', FALSE)
    /\ hist' = Called(TRUE)
    /\ UNCHANGED <<disk, hadm_ids_json, out_files, sdoc, s2, svc, chat>>
    /\ UNCHANGED orchVars
    /\ UNCHANGED fnVars

RfChainWithRepeat == <<"default", "json_object", "omit", "omit">>

\* rf_chain = [None, {"type": "json_object"}, _RF_OMIT]
RfChain == <<"default", "json_object", "omit">>

\* Compact retry over rf_chain.
run_stage1_compact(o, baseline) ==
    /\ spc = "s1_compact"
    /\ LET hit == o.ok
           c == [s1 EXCEPT !.calls = s1.calls + 1]
           r == IF hit THEN [c EXCEPT !.raw_str = o.kind, !.parse_ok = TRUE]
                ELSE c
       IN IF hit \/ s1.rf = Len(RfChain)
          THEN spc' = TrimCheck(r, sdoc, baseline) /\ s1' = [r EXCEPT !.rf = 1]
          ELSE spc' = "s1_compact" /\ s1' = [r EXCEPT !.rf = s1.rf + 1]
    /\ hist' = Called(o.kind # "raise")
    /\ UNCHANGED <<disk, hadm_ids_json, out_files, sdoc, s2, svc, chat>>
    /\ UNCHANGED orchVars
    /\ UNCHANGED fnVars

\* Compact retry on the trimmed slice, same rf_chain.
run_stage1_trimmed(o, baseline) ==
    /\ spc = "s1_trimmed"
    /\ LET hit == o.ok
           c == [s1 EXCEPT !.calls = s1.calls + 1]
           r == IF hit THEN [c EXCEPT !.raw_str = o.kind, !.parse_ok = TRUE]
                ELSE c
       IN IF hit \/ s1.rf = Len(RfChain)
          THEN spc' = PlaceholderCheck(r, baseline) /\ s1' = [r EXCEPT !.rf = 1]
          ELSE spc' = "s1_trimmed" /\ s1' = [r EXCEPT !.rf = s1.rf + 1]
    /\ hist' = Called(o.kind # "raise")
    /\ UNCHANGED <<disk, hadm_ids_json, out_files, sdoc, s2, svc, chat>>
    /\ UNCHANGED orchVars
    /\ UNCHANGED fnVars

\* Placeholder retry (one call).
run_stage1_placeholder(o, baseline) ==
    /\ spc = "s1_placeholder"
    /\ LET r == [s1 EXCEPT !.calls = s1.calls + 1,
                           !.placeholder_calls = s1.placeholder_calls + 1]
       IN s1' = IF o.ok /\ o.kind = "clean"
                THEN [r EXCEPT !.raw_str = "clean", !.parse_ok = TRUE]
                ELSE r
    /\ spc' = BaselineCheck(s1', baseline)
    /\ hist' = Called(o.kind # "raise")
    /\ UNCHANGED <<disk, hadm_ids_json, out_files, sdoc, s2, svc, chat>>
    /\ UNCHANGED orchVars
    /\ UNCHANGED fnVars

\* Baseline (strings_v1) fallback, one call.
run_stage1_baseline(o) ==
    /\ spc = "s1_baseline"
    /\ LET r == [s1 EXCEPT !.calls = s1.calls + 1]
       IN s1' = IF o.ok
                THEN [r EXCEPT !.raw_str = o.kind, !.parse_ok = TRUE]
                ELSE r
    /\ spc' = "s1_write_raw"
    /\ hist' = [hist EXCEPT !.requests = TRUE]
    /\ UNCHANGED <<disk, hadm_ids_json, out_files, sdoc, s2, svc, chat>>
    /\ UNCHANGED orchVars
    /\ UNCHANGED fnVars

\* The artifact writes of run_stage1, one file (group) per step, source order.
run_stage1_write ==
    /\ spc \in {"s1_write_raw", "s1_write_json", "s1_write_norm", "s1_write_md",
                "s1_write_facts", "s1_write_meta"}
    /\ s1' = Parsed(s1)
    /\ CASE spc = "s1_write_raw" ->
              disk' = [disk EXCEPT ![sdoc].stage1_raw = TRUE] /\ spc' = "s1_write_json"
         [] spc = "s1_write_json" ->
              disk' = [disk EXCEPT ![sdoc].stage1_json = TRUE] /\ spc' = "s1_write_norm"
         [] spc = "s1_write_norm" ->
              disk' = [disk EXCEPT ![sdoc].stage1_normalized = TRUE] /\ spc' = "s1_write_md"
         [] spc = "s1_write_md" ->
              disk' = [disk EXCEPT ![sdoc].stage1_md = TRUE] /\ spc' = "s1_write_facts"
         [] spc = "s1_write_facts" ->
              disk' = [disk EXCEPT ![sdoc].stage1_facts = TRUE] /\ spc' = "s1_write_meta"
         [] spc = "s1_write_meta" ->
              /\ disk' = [disk EXCEPT ![sdoc].stage1_meta =
                                          IF s1.parse_ok THEN "yes" ELSE "no"]
              /\ spc' = "exit0"
    /\ hist' = [hist EXCEPT !.doc_writes = TRUE]
    /\ UNCHANGED <<hadm_ids_json, out_files, sdoc, s2, svc, chat>>
    /\ UNCHANGED orchVars
    /\ UNCHANGED fnVars

\* ------------------------------------------------------------ Stage-2 worker
\* One Stage-2 completion: raw_total non-blank lines, kvt lines found by
\* extract_kvt_fact_lines (JSON salvage included), of which leak are dropped by
\* _drop_stage2_prompt_leakage_lines: none or all of them (a partial drop acts
\* as a completion with fewer lines).  An empty text has no lines.
Completions ==
    {c \in [raw_total : 0..MaxRaw, kvt : 0..MaxRaw, leak : 0..MaxRaw] :
        /\ c.leak \in {0, c.kvt}
        /\ (c.raw_total = 0 => c.kvt = 0)}

Raised == [raw_total |-> 0, kvt |-> 0, leak |-> 0, raise |-> TRUE]

Stage2Outcomes ==
    {Raised} \cup {[raw_total |-> c.raw_total, kvt |-> c.kvt, leak |-> c.leak,
                    raise |-> FALSE] : c \in Completions}

\* Of the retry's completion only the extracted lines are used.
RetryOutcomes ==
    {c \in Stage2Outcomes : c.raise \/ (c.raw_total = c.kvt /\ c.leak = 0)}

\* _raw_kvt4_validity and the low_valid_quality test, in integers:
\* raw_rate0 < threshold  <=>  100 * raw_valid0 < pct * raw_total0 (rate 0.0
\* when raw_total0 = 0).
LowValidQuality(retry_on_low_valid, raw_valid0, raw_total0, min_total) ==
    /\ retry_on_low_valid
    /\ raw_total0 >= min_total
    /\ IF raw_total0 = 0
       THEN 0 < RetryValidRateThresholdPct
       ELSE 100 * raw_valid0 < RetryValidRateThresholdPct * raw_total0

RetryNeededAlways(lines, low_valid_quality) == TRUE

\* if not lines or low_valid_quality
RetryNeeded(lines, low_valid_quality) == lines = 0 \/ low_valid_quality

\* What extract_kvt_fact_lines can find in a file.
Extracted(tag) == IF tag \in {"absent", "empty"} THEN {"empty"} ELSE {"empty", "some"}

\* What the normalizer leaves of the merged lines.
Normalized(a, b) == IF a = "empty" /\ b = "empty" THEN {"empty"} ELSE {"empty", "some"}

Tag(n) == IF n = 0 THEN "empty" ELSE "some"

\* What the sanitizers and gates leave of n extracted lines.
Sanitized(n) == IF n = 0 THEN {"empty"} ELSE {"empty", "some"}

\* OpenAICompatibleChatClient(...), assert_model_available(), stage2_behavior,
\* meta_stage2.json.
run_stage2_start(available) ==
    /\ spc = "s2_start"
    /\ IF available
       THEN /\ spc' = "s2_check"
            /\ hist' = [hist EXCEPT !.requests = TRUE, !.cross_writes = TRUE]
       ELSE /\ spc' = "exit1"
            /\ hist' = [hist EXCEPT !.requests = TRUE]
    /\ UNCHANGED <<disk, hadm_ids_json, out_files, sdoc, s1, s2, svc, chat>>
    /\ UNCHANGED orchVars
    /\ UNCHANGED fnVars

MissingStage1ArtifactsIgnored(dir) == FALSE

\* if not stage1_json_path.exists() or not stage1_md_path.exists(): continue
MissingStage1Artifacts(dir) == ~dir.stage1_json \/ ~dir.stage1_md

\* missing stage1 artifacts / skip (exists) / unlink of the stale retry file.
run_stage2_check ==
    /\ spc = "s2_check"
    /\ IF MissingStage1Artifacts(disk[sdoc])
       THEN spc' = "exit0" /\ UNCHANGED <<disk, hist>>
       ELSE IF disk[sdoc].stage2_metrics # "absent" /\ ~s2.overwrite
       THEN spc' = "exit0" /\ UNCHANGED <<disk, hist>>
       ELSE /\ spc' = "s2_call"
            /\ IF s2.overwrite /\ disk[sdoc].stage2_metrics # "absent"
                  /\ disk[sdoc].stage2_raw_retry1
               THEN /\ disk' = [disk EXCEPT ![sdoc].stage2_raw_retry1 = FALSE]
                    /\ hist' = [hist EXCEPT !.doc_writes = TRUE]
               ELSE UNCHANGED <<disk, hist>>
    /\ UNCHANGED <<hadm_ids_json, out_files, sdoc, s1, s2, svc, chat>>
    /\ UNCHANGED orchVars
    /\ UNCHANGED fnVars

\* First completion, stage2_raw.txt, extraction, leakage filter, retry test.
run_stage2_call(c, retry_on_low_valid, min_total) ==
    /\ spc = "s2_call"
    /\ IF c.raise
       THEN /\ spc' = "exit1"
            /\ hist' = [hist EXCEPT !.requests = TRUE]
            /\ UNCHANGED <<disk, s2>>
       ELSE LET lines == c.kvt - c.leak
                low == LowValidQuality(retry_on_low_valid, lines, c.raw_total, min_total)
                r == [s2 EXCEPT !.lines = lines, !.raw_valid0 = lines,
                                !.raw_total0 = c.raw_total, !.min_total = min_total,
                                !.low_valid_quality = low, !.calls = 1]
            IN /\ disk' = [disk EXCEPT ![sdoc].stage2_raw = "first"]
               /\ IF RetryNeeded(lines, low)
                  THEN spc' = "s2_retry" /\ s2' = r
                  ELSE spc' = "s2_write_facts" /\ s2' = Settled(r)
               /\ hist' = [hist EXCEPT !.requests = TRUE, !.doc_writes = TRUE]
    /\ UNCHANGED <<hadm_ids_json, out_files, sdoc, s1, svc, chat>>
    /\ UNCHANGED orchVars
    /\ UNCHANGED fnVars

\* FAILSAFE retry: stage2_raw_retry1.txt; the raw file is rewritten if lines.
run_stage2_retry(c) ==
    /\ spc = "s2_retry"
    /\ IF c.raise
       THEN /\ spc' = "exit1"
            /\ hist' = [hist EXCEPT !.requests = TRUE]
            /\ UNCHANGED <<disk, s2>>
       ELSE /\ disk' = IF c.kvt > 0
                       THEN [disk EXCEPT ![sdoc].stage2_raw_retry1 = TRUE,
                                         ![sdoc].stage2_raw = "retry"]
                       ELSE [disk EXCEPT ![sdoc].stage2_raw_retry1 = TRUE]
            /\ s2' = Settled([s2 EXCEPT !.lines = c.kvt, !.did_retry = c.kvt > 0,
                                        !.calls = 2])
            /\ spc' = "s2_write_facts"
            /\ hist' = [hist EXCEPT !.requests = TRUE, !.doc_writes = TRUE]
    /\ UNCHANGED <<hadm_ids_json, out_files, sdoc, s1, svc, chat>>
    /\ UNCHANGED orchVars
    /\ UNCHANGED fnVars

\* Sanitizers and gates, the Stage-1 PROCEDURES fallback, stage2_facts.txt.
\* (injected: with scope "all" and MEDGEMMA_STAGE1_PROCEDURE_FALLBACK or an
\* experimental MEDGEMMA_STAGE2_PROFILE, _inject_stage1_procedure_fallback
\* added a PROCEDURES line)
run_stage2_write_facts(kept, injected) ==
    /\ spc = "s2_write_facts"
    /\ kept \in Sanitized(s2.lines)
    /\ disk' = [disk EXCEPT ![sdoc].stage2_facts =
                                IF injected THEN "some" ELSE kept]
    /\ s2' = [S2Idle EXCEPT !.overwrite = s2.overwrite]
    /\ spc' = "s2_write_norm"
    /\ hist' = [hist EXCEPT !.doc_writes = TRUE]
    /\ UNCHANGED <<hadm_ids_json, out_files, sdoc, s1, svc, chat>>
    /\ UNCHANGED orchVars
    /\ UNCHANGED fnVars

\* normalize_readmission_kvt4_lines(lines) of the lines just written,
\* stage2_normalized.json.
run_stage2_write_norm(normalized) ==
    /\ spc = "s2_write_norm"
    /\ normalized \in Normalized("empty", disk[sdoc].stage2_facts)
    /\ disk' = [disk EXCEPT ![sdoc].stage2_normalized = normalized]
    /\ spc' = "s2_write_metrics"
    /\ hist' = [hist EXCEPT !.doc_writes = TRUE]
    /\ UNCHANGED <<hadm_ids_json, out_files, sdoc, s1, s2, svc, chat>>
    /\ UNCHANGED orchVars
    /\ UNCHANGED fnVars

\* stage2_metrics.json: the metrics, or {"metrics": null, "note": "GT missing"}.
run_stage2_write_metrics ==
    /\ spc = "s2_write_metrics"
    /\ disk' = [disk EXCEPT ![sdoc].stage2_metrics =
                                IF sdoc \in HasGroundTruth THEN "metrics" ELSE "gt_missing"]
    /\ spc' = "exit0"
    /\ hist' = [hist EXCEPT !.doc_writes = TRUE]
    /\ UNCHANGED <<hadm_ids_json, out_files, sdoc, s1, s2, svc, chat>>
    /\ UNCHANGED orchVars
    /\ UNCHANGED fnVars

\* ------------------------------------------------------------ demo service
\* RiskResult.confidence from the number of clusters that have facts:
\* completeness = 1 - missing / 9; high from 0.7, medium from 0.5.
Confidence(present) ==
    IF 10 * present >= 7 * NumClusters THEN "high"
    ELSE IF 2 * present >= NumClusters THEN "medium"
    ELSE "low"

\* _score_risk: None for an empty stream, else the engine's RiskResult.
ScoreRisk(r, present) ==
    IF r.normalized_lines = "empty"
    THEN [r EXCEPT !.risk = "None"]
    ELSE [r EXCEPT !.risk = "RiskResult", !.present = present,
                   !.confidence = Confidence(present)]

\* run_structcore -> _run_pipeline_backend: a fresh temporary directory, the
\* note of one document, _run_cmd(stage1_cmd) with --overwrite-stage1.
svc_start(hadm) ==
    /\ opc \in {"svc_idle", "svc_done"}
    /\ hist.runs < MaxDocRuns
    /\ disk' = NoDisk /\ hadm_ids_json' = << >>
    /\ svc' = SvcIdle
    /\ opc' = "svc_stage1_wait"
    /\ spc' = "s1_start" /\ sdoc' = hadm
    /\ s1' = [S1Idle EXCEPT !.overwrite = TRUE]
    /\ hist' = [HistIdle EXCEPT !.runs = hist.runs + 1]
    /\ UNCHANGED <<out_files, args, idx, hadm_ids_stable, ok, skipped, failed, timings_rows,
                   lora_scale, s2, chat>>
    /\ UNCHANGED fnVars

\* except Exception in run_structcore: the temporary directory is removed;
\* the mock backend answers, or an error result without a risk.
svc_error(fallback_to_mock_on_error) ==
    /\ disk' = NoDisk /\ hadm_ids_json' = << >>
    /\ IF fallback_to_mock_on_error
       THEN opc' = "svc_mock" /\ UNCHANGED svc
       ELSE /\ opc' = "svc_done"
            /\ svc' = [svc EXCEPT !.backend_mode = "pipeline", !.risk = "None",
                                  !.error = TRUE]

\* _run_cmd(stage1_cmd) returned; _run_cmd(stage2_cmd) with --overwrite-stage2.
svc_stage1_done(fallback_to_mock_on_error) ==
    /\ opc = "svc_stage1_wait"
    /\ spc \in {"exit0", "exit1"}
    /\ IF spc = "exit0"
       THEN /\ opc' = "svc_stage2_wait"
            /\ spc' = "s2_start" /\ s2' = [S2Idle EXCEPT !.overwrite = TRUE]
            /\ UNCHANGED <<disk, hadm_ids_json, svc, sdoc>>
       ELSE /\ svc_error(fallback_to_mock_on_error)
            /\ spc' = "none" /\ sdoc' = 0
            /\ UNCHANGED s2
    /\ s1' = S1Idle
    /\ UNCHANGED <<out_files, args, idx, hadm_ids_stable, ok, skipped, failed, timings_rows,
                   lora_scale, chat, hist>>
    /\ UNCHANGED fnVars

\* _run_cmd(stage2_cmd) returned.
svc_stage2_done(fallback_to_mock_on_error) ==
    /\ opc = "svc_stage2_wait"
    /\ spc \in {"exit0", "exit1"}
    /\ IF spc = "exit0"
       THEN opc' = "svc_read" /\ UNCHANGED <<disk, hadm_ids_json, svc>>
       ELSE svc_error(fallback_to_mock_on_error)
    /\ spc' = "none" /\ s2' = S2Idle
    /\ sdoc' = IF spc = "exit0" THEN sdoc ELSE 0
    /\ hist' = [hist EXCEPT !.stage2_returned = TRUE,
                            !.retried = disk[sdoc].stage2_raw_retry1]
    /\ UNCHANGED <<out_files, args, idx, hadm_ids_stable, ok, skipped, failed, timings_rows,
                   lora_scale, s1, chat>>
    /\ UNCHANGED fnVars

\* _read_optional of the four files, the merge of the Stage-1 and Stage-2
\* lines (Stage-2 from stage2_facts.txt, or from stage2_raw.txt when that is
\* blank), and the end of the with block.
svc_read(stage1_kvt4, stage2_kvt4) ==
    /\ opc = "svc_read"
    /\ LET dir == disk[sdoc]
           stage2_text == IF dir.stage2_facts = "some" THEN "some"
                          ELSE IF dir.stage2_raw = "absent" THEN "absent" ELSE "some"
       IN /\ stage1_kvt4 \in Extracted(IF dir.stage1_facts THEN "some" ELSE "absent")
          /\ stage2_kvt4 \in (IF dir.stage2_facts = "some" THEN {"some"}
                              ELSE Extracted(stage2_text))
          /\ svc' = [svc EXCEPT !.stage1_facts = IF dir.stage1_facts THEN "some" ELSE "absent",
                                !.stage2_facts = dir.stage2_facts,
                                !.stage1_kvt4 = stage1_kvt4,
                                !.stage2_kvt4 = stage2_kvt4]
    /\ disk' = NoDisk /\ hadm_ids_json' = << >>
    /\ opc' = "svc_score" /\ sdoc' = 0
    /\ UNCHANGED <<out_files, args, idx, hadm_ids_stable, ok, skipped, failed, timings_rows,
                   lora_scale, spc, s1, s2, chat, hist>>
    /\ UNCHANGED fnVars

\* normalize_readmission_kvt4_lines, _score_risk, the StructCoreResult.
svc_score(normalized_lines, present) ==
    /\ opc = "svc_score"
    /\ normalized_lines \in Normalized(svc.stage1_kvt4, svc.stage2_kvt4)
    /\ svc' = ScoreRisk([svc EXCEPT !.backend_mode = "pipeline",
                                    !.normalized_lines = normalized_lines], present)
    /\ opc' = "svc_done"
    /\ UNCHANGED <<disk, hadm_ids_json, out_files, args, idx, hadm_ids_stable, ok, skipped,
                   failed, timings_rows, lora_scale, spc, sdoc, s1, s2, chat, hist>>
    /\ UNCHANGED fnVars

\* _run_mock_backend: heuristic lines of the note, normalized and scored.
svc_mock(normalized_lines, present) ==
    /\ opc = "svc_mock"
    /\ svc' = ScoreRisk([svc EXCEPT !.backend_mode = "mock (pipeline fallback)",
                                    !.normalized_lines = normalized_lines], present)
    /\ opc' = "svc_done"
    /\ UNCHANGED <<disk, hadm_ids_json, out_files, args, idx, hadm_ids_stable, ok, skipped,
                   failed, timings_rows, lora_scale, spc, sdoc, s1, s2, chat, hist>>
    /\ UNCHANGED fnVars

\* ------------------------------------------- OpenAICompatibleChatClient.chat
\* response_format arguments: None, two typed dicts, a dict without "type".
ResponseFormats == {"none", "json_schema", "json_object", "untyped"}

\* _rf_type
RfType(rf) == IF rf = "none" THEN "none" ELSE IF rf = "untyped" THEN "unknown" ELSE rf

FallbackFormatOmitted == "none"

\* payload["response_format"] = {"type": "json_object"}
FallbackFormat == "json_object"

\* _call: the server answers with a completion text, or the request raises
\* (HTTP error, timeout, {"error": ...}).
Replies ==
    [ok : {TRUE}, text : 1..MaxText, err : {"none"}]
        \cup [ok : {FALSE}, text : {0}, err : {"HTTPError", "RuntimeError"}]

\* ChatResult of the request that succeeded.
ChatResult(c, attempts, sent, r, reason) ==
    [c EXCEPT !.pc = "returned", !.attempts = attempts, !.sent = sent, !.text = r.text,
              !.response_format_final = attempts[Len(attempts)],
              !.used_response_format_fallback = Len(attempts) > 1,
              !.fallback_reason = reason]

chat_begin(response_format) ==
    /\ chat.pc \in {"idle", "returned", "raised"}
    /\ chat.calls < MaxChatCalls
    /\ chat' = [ChatIdle EXCEPT !.pc = "first", !.response_format = response_format,
                                !.payload = response_format, !.calls = chat.calls + 1]
    /\ UNCHANGED <<disk, hadm_ids_json, out_files, svc, hist>>
    /\ UNCHANGED orchVars
    /\ UNCHANGED subVars
    /\ UNCHANGED fnVars

\* The request with the payload as given.
chat_first(r) ==
    /\ chat.pc = "first"
    /\ LET attempts == Append(chat.attempts, RfType(chat.payload))
           sent == Append(chat.sent, [rf |-> chat.payload, ok |-> r.ok, text |-> r.text])
       IN chat' = IF r.ok
                  THEN ChatResult(chat, attempts, sent, r, "none")
                  ELSE IF chat.payload = "none"
                  THEN [chat EXCEPT !.pc = "raised", !.attempts = attempts, !.sent = sent]
                  ELSE [chat EXCEPT !.pc = "second", !.attempts = attempts, !.sent = sent,
                                    !.fallback_reason = r.err]
    /\ UNCHANGED <<disk, hadm_ids_json, out_files, svc, hist>>
    /\ UNCHANGED orchVars
    /\ UNCHANGED subVars
    /\ UNCHANGED fnVars

\* The request with response_format json_object.
chat_second(r) ==
    /\ chat.pc = "second"
    /\ LET attempts == Append(chat.attempts, RfType(FallbackFormat))
           sent == Append(chat.sent, [rf |-> FallbackFormat, ok |-> r.ok, text |-> r.text])
       IN chat' = IF r.ok
                  THEN ChatResult([chat EXCEPT !.payload = FallbackFormat], attempts, sent,
                                  r, chat.fallback_reason)
                  ELSE [chat EXCEPT !.pc = "third", !.payload = FallbackFormat,
                                    !.attempts = attempts, !.sent = sent]
    /\ UNCHANGED <<disk, hadm_ids_json, out_files, svc, hist>>
    /\ UNCHANGED orchVars
    /\ UNCHANGED subVars
    /\ UNCHANGED fnVars

\* The request without response_format; its exception propagates.
chat_third(r) ==
    /\ chat.pc = "third"
    /\ LET attempts == Append(chat.attempts, RfType("none"))
           sent == Append(chat.sent, [rf |-> "none", ok |-> r.ok, text |-> r.text])
       IN chat' = IF r.ok
                  THEN ChatResult([chat EXCEPT !.payload = "none"], attempts, sent,
                                  r, chat.fallback_reason)
                  ELSE [chat EXCEPT !.pc = "raised", !.payload = "none",
                                    !.attempts = attempts, !.sent = sent]
    /\ UNCHANGED <<disk, hadm_ids_json, out_files, svc, hist>>
    /\ UNCHANGED orchVars
    /\ UNCHANGED subVars
    /\ UNCHANGED fnVars

\* ------------------------------------------------------ KVT4 post-processing
\* A KVT4 line CLUSTER|Keyword|Value|Timestamp is the record of its four parts
\* ([p.strip() for p in ln.split("|")]).  The strings a line list is built from:
KvtTimestamps == {"Admission", "Discharge", "Past", "Unknown"}

Line(c, k, v, t) == [cluster |-> c, keyword |-> k, value |-> v, timestamp |-> t]

\* Lines a Stage-2 completion can contain after extraction.
KvtLines ==
    {Line("VITALS", "Heart Rate", v, t) : v \in {"88", "72", "88 bpm"}, t \in KvtTimestamps}
    \cup {Line("**vitals**", "Heart Rate", "72", t) : t \in {"Discharge", "Past"}}
    \cup {Line("VITALS", "Blood Pressure", "140/90", t) : t \in KvtTimestamps}
    \cup {Line("VITALS", "Surgery", "1", "Admission")}
    \cup {Line("DISPOSITION", "Mental Status", "alert", t) : t \in {"Admission", "Unknown"}}
    \cup {Line("PROBLEMS", "CHF", "chronic", "Past")}
    \cup {Line("ALLERGIES", "Penicillin", "yes", "Past")}

\* Contents of stage1_facts.txt (_stage1_objective_to_kvt4_lines).
Stage1Exports ==
    { << >>,
      << Line("VITALS", "Heart Rate", "88", "Admission") >>,
      << Line("VITALS", "Heart Rate", "88 bpm", "Admission"),
         Line("LABS", "Sodium", "140", "Admission") >> }

SeqsUpTo(S, n) == UNION {[1..m -> S] : m \in 0..n}

\* cluster.strip().strip("*<>").strip().upper()
ClusterUpper(c) == IF c = "**vitals**" THEN "VITALS" ELSE c

\* _NUM_RE = ^-?\d+(?:\.\d+)?$
NumRe(v) == v \in {"88", "72", "1", "140", "90"}

\* re.search(r"-?\d+(?:\.\d+)?", value): the first number of the value.
FirstNumber(v) ==
    CASE v = "88 bpm" -> "88"
      [] v = "140/90" -> "140"
      [] NumRe(v)     -> v
      [] OTHER        -> "none"

\* re.search(r"(\d+(?:\.\d+)?)\s*/\s*(\d+(?:\.\d+)?)", value)
BpMatch(v) == IF v = "140/90" THEN <<"140", "90">> ELSE << >>

objective_clusters == {"DEMOGRAPHICS", "VITALS", "LABS", "UTILIZATION", "DISPOSITION"}
numeric_clusters == {"VITALS", "LABS", "UTILIZATION"}
semantic_clusters == {"PROBLEMS", "SYMPTOMS", "MEDICATIONS", "PROCEDURES"}

\* ts_rank of _sanitize_stage2_lines
ts_rank(ts) ==
    IF ts \in {"Discharge", "DC"} THEN 2 ELSE IF ts \in {"Admission", "ADM"} THEN 1 ELSE 0

\* "Normalize common timestamp shorthands."
TsShorthand(ts) == IF ts = "ADM" THEN "Admission" ELSE IF ts = "DC" THEN "Discharge" ELSE ts

\* Canonical objective timestamps (policy default).
CanonicalTs(c) ==
    IF c = "DISPOSITION" THEN "Discharge" ELSE IF c = "UTILIZATION" THEN "Past" ELSE "Admission"

Key(r) == <<r.cluster, r.keyword>>

\* Position of the entry of a key in an insertion-ordered dict (0: absent).
Find(d, key) ==
    IF \E i \in 1..Len(d) : Key(d[i]) = key
    THEN CHOOSE i \in 1..Len(d) : Key(d[i]) = key
    ELSE 0

\* The (cluster, keyword) pairs in the order of Python's string comparison.
KeyOrder ==
    << <<"ALLERGIES", "Penicillin">>,
       <<"DISPOSITION", "Mental Status">>, <<"LABS", "Sodium">>, <<"PROBLEMS", "CHF">>,
       <<"VITALS", "Blood Pressure">>, <<"VITALS", "Diastolic BP">>,
       <<"VITALS", "Heart Rate">>, <<"VITALS", "Surgery">>, <<"VITALS", "Systolic BP">> >>

\* out.sort(key=lambda s: (s.split("|", 1)[0], s.split("|", 2)[1])): stable.
RECURSIVE SortFrom(_, _)
SortFrom(out, i) ==
    IF i > Len(KeyOrder) THEN << >>
    ELSE SelectSeq(out, LAMBDA r : Key(r) = KeyOrder[i]) \o SortFrom(out, i + 1)

SortByKey(out) == SortFrom(out, 1)

\* The loop of _sanitize_stage2_lines over the 4-part lines: best_objective
\* (an insertion-ordered dict, its entries carrying their rank) and other_lines.
\* MEDGEMMA_STAGE2_RECOVER_3PART_LINES, ..._RECLASSIFY_NONNUMERIC_CLUSTERS and
\* MEDGEMMA_EXPAND_SEMANTIC_LINES are at their validated defaults (off).
RECURSIVE SanitizeLoop(_, _, _, _, _)
SanitizeLoop(lines, i, best_objective, other_lines, scope) ==
    IF i > Len(lines) THEN [best_objective |-> best_objective, other_lines |-> other_lines]
    ELSE LET ln == lines[i]
             cluster_u == ClusterUpper(ln.cluster)
             ts == TsShorthand(ln.timestamp)
             r == ts_rank(ts)
             entry == [cluster |-> cluster_u, keyword |-> ln.keyword, value |-> ln.value,
                       timestamp |-> ts, r |-> r]
             prev == Find(best_objective, <<cluster_u, ln.keyword>>)
         IN IF ln.value = "not stated" THEN
                SanitizeLoop(lines, i + 1, best_objective, other_lines, scope)
            ELSE IF cluster_u \in numeric_clusters /\ ~NumRe(ln.value) THEN
                SanitizeLoop(lines, i + 1, best_objective, other_lines, scope)
            ELSE IF cluster_u \in objective_clusters THEN
                SanitizeLoop(lines, i + 1,
                             IF prev = 0 THEN Append(best_objective, entry)
                             ELSE IF r > best_objective[prev].r
                             THEN [best_objective EXCEPT ![prev] = entry]
                             ELSE best_objective,
                             other_lines, scope)
            ELSE IF scope = "all" THEN
                SanitizeLoop(lines, i + 1, best_objective,
                             Append(other_lines, Line(cluster_u, ln.keyword, ln.value, ts)),
                             scope)
            ELSE SanitizeLoop(lines, i + 1, best_objective, other_lines, scope)

\* Exact-string dedup of other_lines against what is already in out.
RECURSIVE AppendUnseen(_, _, _)
AppendUnseen(out, other_lines, i) ==
    IF i > Len(other_lines) THEN out
    ELSE AppendUnseen(IF other_lines[i] \in Range(out) THEN out
                      ELSE Append(out, other_lines[i]),
                      other_lines, i + 1)

\* _sanitize_stage2_lines(lines, scope=scope); objective_ts_canonical_all is
\* MEDGEMMA_OBJECTIVE_TS_CANONICAL_ALL.
SanitizeStage2Lines(lines, scope, objective_ts_canonical_all) ==
    LET acc == SanitizeLoop(lines, 1, << >>, << >>, scope)
        best == acc.best_objective
        out == [i \in 1..Len(best) |->
                  Line(best[i].cluster, best[i].keyword, best[i].value,
                       IF scope = "objective" \/ objective_ts_canonical_all
                       THEN CanonicalTs(best[i].cluster) ELSE best[i].timestamp)]
    IN SortByKey(IF scope = "all" THEN AppendUnseen(out, acc.other_lines, 1) ELSE out)


\* _BINARY_FLAG_KEYWORDS, _BINARY_TRUE_VALUES, _BINARY_FALSE_VALUES
BinaryFlagKeywords ==
    {"Anticoagulation", "Insulin Therapy", "Opioid Therapy", "Diuretic Therapy",
     "Any Procedure", "Surgery", "Dialysis"}
BinaryTrueValues == {"1", "1.0", "true", "yes", "y"}
BinaryFalseValues == {"0", "0.0", "false", "no", "n"}

\* _normalize_binary_flag_values: the keyword decides, whatever the cluster.
NormalizeBinaryFlagValues(lines) ==
    [i \in 1..Len(lines) |->
        LET ln == lines[i]
        IN IF ln.keyword \notin BinaryFlagKeywords THEN ln
           ELSE IF ln.value \in BinaryTrueValues
           THEN [ln EXCEPT !.value = IF ln.keyword = "Dialysis" THEN "done" ELSE "yes"]
           ELSE IF ln.value \in BinaryFalseValues THEN [ln EXCEPT !.value = "no"]
           ELSE ln]

\* normalize_readmission_kvt4_lines._normalize_timestamp
NormalizeTimestamp(t) ==
    IF t \in {"Admission", "Discharge", "Past", "Unknown"} THEN t
    ELSE IF t = "ADM" THEN "Admission"
    ELSE IF t = "DC" THEN "Discharge"
    ELSE "Unknown"

\* normalize_readmission_kvt4_lines._fill_unknown_timestamp
FillUnknownTimestamp(c, k, v) ==
    IF c = "DISPOSITION" THEN "Discharge"
    ELSE IF c = "UTILIZATION" THEN "Past"
    ELSE IF c = "PROBLEMS" THEN (IF v = "acute" THEN "Discharge" ELSE "Past")
    ELSE "Admission"

\* vital_alias
VitalAlias(k) ==
    CASE k \in {"HR", "Pulse"} -> "Heart Rate"
      [] k = "BP"             -> "Blood Pressure"
      [] k \in {"Systolic", "SBP"}  -> "Systolic BP"
      [] k \in {"Diastolic", "DBP"} -> "Diastolic BP"
      [] OTHER                -> k

\* STRICT_KEYWORDS_READMISSION (the keywords of the modelled clusters)
StrictKeywords(c) ==
    CASE c = "VITALS" -> {"Heart Rate", "Systolic BP", "Diastolic BP", "Respiratory Rate",
                          "Temperature", "SpO2", "Weight"}
      [] c = "LABS" -> {"Hemoglobin", "Hematocrit", "WBC", "Platelet", "Sodium",
                        "Potassium", "Creatinine", "BUN", "Glucose", "Bicarbonate"}
      [] c = "DISPOSITION" -> {"Discharge Disposition", "Mental Status"}
      [] OTHER -> {}

IsStrict(c) == c \in {"DEMOGRAPHICS", "VITALS", "LABS", "MEDICATIONS", "PROCEDURES",
                      "UTILIZATION", "DISPOSITION"}

\* The cluster-specific value normalization ("none": the line is dropped).
NormalizeValue(c, k, v) ==
    CASE c \in {"VITALS", "LABS", "UTILIZATION"} -> FirstNumber(v)
      [] c = "DISPOSITION" /\ k = "Mental Status" ->
            (IF v \in {"alert", "confused", "lethargic", "oriented"} THEN v ELSE "none")
      [] c = "PROBLEMS" ->
            (IF v \in {"chronic", "acute", "exist", "not exist"} THEN v ELSE "none")
      [] OTHER -> v

\* First pass of normalize_readmission_kvt4_lines: the candidates of one line
\* (MEDGEMMA_TIMESTAMP_FILL_UNKNOWN at its default, on).
Candidates(ln) ==
    LET c_up == ClusterUpper(ln.cluster)
        t_norm == NormalizeTimestamp(ln.timestamp)
        k_norm == IF c_up = "VITALS" THEN VitalAlias(ln.keyword) ELSE ln.keyword
        v_norm == NormalizeValue(c_up, k_norm, ln.value)
    IN IF ln.value \in {"___", "__", "_", "N/A", "NA", "null", "None"} THEN << >>
       ELSE IF c_up = "VITALS" /\ k_norm = "Blood Pressure" THEN
           (IF BpMatch(ln.value) = << >> THEN << >>
            ELSE << Line("VITALS", "Systolic BP", BpMatch(ln.value)[1], t_norm),
                    Line("VITALS", "Diastolic BP", BpMatch(ln.value)[2], t_norm) >>)
       ELSE IF v_norm = "none" THEN << >>
       ELSE IF IsStrict(c_up) /\ k_norm \notin StrictKeywords(c_up) THEN << >>
       ELSE << Line(c_up, k_norm, v_norm,
                    IF t_norm = "Unknown" THEN FillUnknownTimestamp(c_up, k_norm, v_norm)
                    ELSE t_norm) >>

RECURSIVE NormalizedCandidates(_, _)
NormalizedCandidates(lines, i) ==
    IF i > Len(lines) THEN << >>
    ELSE Candidates(lines[i]) \o NormalizedCandidates(lines, i + 1)

\* ts_rank of the normalizer: the index in MEDGEMMA_TIMESTAMP_PRIORITY
\* (default Discharge,Admission,Past,Unknown), 999 for anything else.
TsPriority(t) ==
    CASE t = "Discharge" -> 0 [] t = "Admission" -> 1 [] t = "Past" -> 2
      [] t = "Unknown" -> 3 [] OTHER -> 999

\* Second pass: dedupe by (CLUSTER, Keyword) using timestamp priority.
RECURSIVE DedupeLoop(_, _, _)
DedupeLoop(cands, i, best) ==
    IF i > Len(cands) THEN best
    ELSE LET cur == Find(best, Key(cands[i]))
         IN DedupeLoop(cands, i + 1,
                       IF cur = 0 THEN Append(best, cands[i])
                       ELSE IF TsPriority(cands[i].timestamp) < TsPriority(best[cur].timestamp)
                       THEN [best EXCEPT ![cur] = cands[i]]
                       ELSE best)

\* normalize_readmission_kvt4_lines(lines)[0]
NormalizeReadmissionKvt4Lines(lines) ==
    SortByKey(DedupeLoop(NormalizedCandidates(lines, 1), 1, << >>))


\* ------------------------------------------------------------- KVT4 parser
\* A text is the sequence of its lines, a line the sequence of its
\* "|"-separated parts.  Well-formed records: cluster of the closed set,
\* non-empty keyword, value valid for the cluster, timestamp of the closed set.
WellFormedRecords ==
    {Line(x[1], x[2], x[3], t) :
        x \in { <<"VITALS", "Heart Rate", "88">>, <<"LABS", "Sodium", "140">>,
                <<"PROCEDURES", "Any Procedure", "yes">>, <<"PROCEDURES", "Surgery", "no">>,
                <<"PROBLEMS", "CHF", "chronic">>, <<"PROBLEMS", "Thought disorder", "chronic">>,
                <<"DISPOSITION", "Mental Status", "alert">> },
        t \in KvtTimestamps}

\* f"{cluster}|{keyword}|{value}|{timestamp}" as a one-line text.
Serialize(r) == << <<r.cluster, r.keyword, r.value, r.timestamp>> >>

\* any(marker in line.lower() for marker in ['thought', 'the user wants',
\* "here's my plan", 'input:', 'output:', 'constraints:'])
ThinkingMarker(line) == \E i \in 1..Len(line) : line[i] \in {"Thought disorder"}

\* strip_medgemma_internal_tokens: the lines outside thinking blocks.
RECURSIVE StripThinking(_, _, _)
StripThinking(text, i, in_thinking_block) ==
    IF i > Len(text) THEN << >>
    ELSE IF ThinkingMarker(text[i]) THEN StripThinking(text, i + 1, TRUE)
    ELSE IF in_thinking_block /\ Len(text[i]) < 4 THEN StripThinking(text, i + 1, TRUE)
    ELSE <<text[i]>> \o StripThinking(text, i + 1, FALSE)

\* any(marker in parts_lower[1] for marker in ['any diagnosis', 'any symptom',
\* 'any procedure', 'value:'])
InstructionMarker(keyword) == keyword \in {"Any Procedure"}

\* _looks_like_kvt_fact (ALLOW_KVT3 at its default, on)
LooksLikeKvtFact(parts) ==
    /\ Len(parts) \in {3, 4}
    /\ parts # <<"category", "keyword", "value", "timestamp">>
    /\ ~InstructionMarker(parts[2])
    /\ \A i \in 1..Len(parts) : parts[i] # ""

\* The line-by-line pass of extract_kvt_fact_lines with add_fact.
RECURSIVE ExtractLines(_, _)
ExtractLines(text, i) ==
    IF i > Len(text) THEN << >>
    ELSE LET ln == text[i]
             fact == IF Len(ln) = 5 /\ ln[1] \in {"CLUSTER", "CLUSTERS"} THEN Tail(ln) ELSE ln
         IN (IF Len(ln) >= 2 /\ LooksLikeKvtFact(fact) THEN <<fact>> ELSE << >>)
                \o ExtractLines(text, i + 1)

\* _dedupe_preserve_order
RECURSIVE DedupePreserveOrder(_, _)
DedupePreserveOrder(items, out) ==
    IF items = << >> THEN out
    ELSE DedupePreserveOrder(Tail(items),
                             IF Head(items) \in Range(out) THEN out
                             ELSE Append(out, Head(items)))

\* extract_kvt_fact_lines(text)
ExtractKvtFactLines(text) ==
    DedupePreserveOrder(ExtractLines(StripThinking(text, 1, FALSE), 1), << >>)

\* --------------------------------------- the post-processing, step by step
KvtIdle ==
    [pc |-> "idle", lines |-> << >>, stage1_kvt4 |-> << >>, scope |-> "none",
     objective_ts_canonical_all |-> FALSE, sanitized |-> << >>, facts |-> << >>,
     normalized |-> << >>, merged |-> << >>, record |-> Line("", "", "", ""),
     text |-> << >>, parsed |-> << >>]

\* run_stage2: lines = _sanitize_stage2_lines(lines, scope=scope)
kvt_sanitize(scope, objective_ts_canonical_all) ==
    /\ kvt.pc = "sanitize"
    /\ kvt' = [kvt EXCEPT !.pc = "flags", !.scope = scope,
                          !.objective_ts_canonical_all = objective_ts_canonical_all,
                          !.sanitized = SanitizeStage2Lines(kvt.lines, scope,
                                                            objective_ts_canonical_all)]
    /\ UNCHANGED <<disk, hadm_ids_json, out_files, svc, chat, hist, eng, inv, req, url, con>>
    /\ UNCHANGED orchVars
    /\ UNCHANGED subVars

\* run_stage2: lines = _normalize_binary_flag_values(lines), written as
\* stage2_facts.txt.  (The filters between the two only drop lines or rewrite
\* PROCEDURES lines from the Stage-1 markdown.)
kvt_write_facts ==
    /\ kvt.pc = "flags"
    /\ kvt' = [kvt EXCEPT !.pc = "normalize",
                          !.facts = NormalizeBinaryFlagValues(kvt.sanitized)]
    /\ UNCHANGED <<disk, hadm_ids_json, out_files, svc, chat, hist, eng, inv, req, url, con>>
    /\ UNCHANGED orchVars
    /\ UNCHANGED subVars

\* run_stage2: norm, norm_stats = normalize_readmission_kvt4_lines(lines)
kvt_normalize ==
    /\ kvt.pc = "normalize"
    /\ kvt' = [kvt EXCEPT !.pc = "service",
                          !.normalized = NormalizeReadmissionKvt4Lines(kvt.facts)]
    /\ UNCHANGED <<disk, hadm_ids_json, out_files, svc, chat, hist, eng, inv, req, url, con>>
    /\ UNCHANGED orchVars
    /\ UNCHANGED subVars

\* _run_pipeline_backend: raw_lines = stage1_kvt4 + stage2_kvt4, normalized;
\* stage2_kvt4 comes from stage2_facts.txt, or from stage2_raw.txt when the
\* facts file is blank.
kvt_service_merge ==
    /\ kvt.pc = "service"
    /\ LET stage2_kvt4 == IF kvt.facts # << >> THEN kvt.facts ELSE kvt.lines
       IN kvt' = [kvt EXCEPT !.pc = "done",
                             !.merged = NormalizeReadmissionKvt4Lines(
                                            kvt.stage1_kvt4 \o stage2_kvt4)]
    /\ UNCHANGED <<disk, hadm_ids_json, out_files, svc, chat, hist, eng, inv, req, url, con>>
    /\ UNCHANGED orchVars
    /\ UNCHANGED subVars

kvt_serialize ==
    /\ kvt.pc = "serialize"
    /\ kvt' = [kvt EXCEPT !.pc = "extract", !.text = Serialize(kvt.record)]
    /\ UNCHANGED <<disk, hadm_ids_json, out_files, svc, chat, hist, eng, inv, req, url, con>>
    /\ UNCHANGED orchVars
    /\ UNCHANGED subVars

kvt_extract ==
    /\ kvt.pc = "extract"
    /\ kvt' = [kvt EXCEPT !.pc = "parsed", !.parsed = ExtractKvtFactLines(kvt.text)]
    /\ UNCHANGED <<disk, hadm_ids_json, out_files, svc, chat, hist, eng, inv, req, url, con>>
    /\ UNCHANGED orchVars
    /\ UNCHANGED subVars

\* ------------------------------------------------------- Stage-2 request
\* Lines of a Stage-1 Markdown summary (stage1.md).
MdLines ==
    {"## VITALS", "ADM: HR=88; Temp=not stated", "ADM: HR=not stated; Temp=not stated",
     "## PROBLEMS", "CHF", "not stated"}

\* Summaries Stage-1 can have written for a document.
Stage1Mds ==
    { << "## VITALS", "ADM: HR=88; Temp=not stated", "## PROBLEMS", "CHF" >>,
      << "## VITALS", "ADM: HR=not stated; Temp=not stated", "## PROBLEMS", "CHF" >>,
      << "## VITALS", "ADM: HR=88; Temp=not stated", "## PROBLEMS", "not stated" >> }

\* Raw note texts of the cohort document.
NoteTexts == {"note A", "note B"}

\* ln.startswith("## "), ln[3:].strip().upper()
IsHeader(ln) == ln \in {"## VITALS", "## PROBLEMS"}
HeaderCluster(ln) == IF ln = "## VITALS" THEN "VITALS" ELSE "PROBLEMS"

\* _filter_stage1_markdown_for_stage2: the lines of the wanted sections.
RECURSIVE FilterLoop(_, _, _, _, _)
FilterLoop(md, i, cur, out, want) ==
    IF i > Len(md) THEN out
    ELSE LET c == IF IsHeader(md[i]) THEN HeaderCluster(md[i]) ELSE cur
         IN FilterLoop(md, i + 1, c, IF c \in want THEN Append(out, md[i]) ELSE out, want)

FilterStage1MarkdownForStage2(md, allowed_clusters) ==
    FilterLoop(md, 1, "none", << >>, allowed_clusters)

\* _compact_stage1_markdown, steps 1-5 on one line: the lines it appends.
CompactLine(ln) ==
    IF ln = "not stated" THEN << >>
    ELSE IF IsHeader(ln) THEN <<ln>>
    ELSE IF ln = "ADM: HR=88; Temp=not stated" THEN <<"ADM: HR=88">>
    ELSE IF ln = "ADM: HR=not stated; Temp=not stated" THEN << >>
    ELSE <<ln>>

RECURSIVE CompactLoop(_, _)
CompactLoop(md, i) ==
    IF i > Len(md) THEN << >> ELSE CompactLine(md[i]) \o CompactLoop(md, i + 1)

\* step 6: a section header with no content below it is dropped.
RECURSIVE PruneHeaders(_, _)
PruneHeaders(out, i) ==
    IF i > Len(out) THEN << >>
    ELSE IF IsHeader(out[i]) /\ (i = Len(out) \/ IsHeader(out[i + 1]))
    THEN PruneHeaders(out, i + 1)
    ELSE <<out[i]>> \o PruneHeaders(out, i + 1)

CompactStage1Markdown(md) == PruneHeaders(CompactLoop(md, 1), 1)

\* Run configurations: --output-mode, --scope and the training-match prompt
\* switch (json is accepted with scope objective only).
Stage2Configs ==
    {c \in [output_mode : {"lines", "json"}, scope : {"objective", "all"},
            use_training_match_prompt : BOOLEAN] :
        c.output_mode = "json" => c.scope = "objective"}

\* _stage2_prompt_template_for_run: the id of the template.
Stage2PromptTemplateForRun(c) ==
    IF c.output_mode = "json"
    THEN "READMISSION_STAGE2_FROM_DOMAIN_MARKDOWN_PROMPT_STRICT_LINES"
    ELSE IF c.scope = "objective"
    THEN "READMISSION_STAGE2_OBJECTIVE_FROM_DOMAIN_MARKDOWN_PROMPT_LINES"
    ELSE IF c.use_training_match_prompt
    THEN "READMISSION_STAGE2_ALL_TRAINING_MATCH_PROMPT"
    ELSE "READMISSION_STAGE2_ALL_FROM_DOMAIN_MARKDOWN_PROMPT_LINES"

Stage2EhrTextFromNote(c, doc) == <<doc.note>>

\* md = md_path.read_text(); md_in by scope: what replaces {EHR_TEXT}.
\* (doc: what the run finds for the document, the note in the cohort
\* directory and stage1.md in the output directory)
Stage2EhrText(c, doc) ==
    IF c.scope = "objective"
    THEN FilterStage1MarkdownForStage2(doc.stage1_md,
             {"DEMOGRAPHICS", "VITALS", "LABS", "UTILIZATION", "DISPOSITION"})
    ELSE CompactStage1Markdown(doc.stage1_md)

\* The request of client.chat: system_prompt is the template with {EHR_TEXT}
\* replaced, the user turn is "BEGIN", the response format follows the mode.
Stage2Request(c, doc) ==
    [system_prompt |-> [template |-> Stage2PromptTemplateForRun(c),
                        ehr_text |-> Stage2EhrText(c, doc)],
     user_prompt |-> "BEGIN",
     response_format |-> IF c.output_mode = "json" THEN "json_schema" ELSE "none"]

NoRequest ==
    [system_prompt |-> [template |-> "none", ehr_text |-> << >>],
     user_prompt |-> "none", response_format |-> "none"]

\* Two runs of run_stage2 over one document under one configuration.
Runs == {"a", "b"}

ReqIdle ==
    [pc |-> "idle", cfg |-> << >>, doc |-> << >>, sent |-> [r \in Runs |-> NoRequest]]

\* run_stage2 of run r, up to the first client.chat.
run_stage2_request(r) ==
    /\ req.pc = "runs"
    /\ req.sent[r] = NoRequest
    /\ req' = [req EXCEPT !.sent[r] = Stage2Request(req.cfg, req.doc[r])]
    /\ UNCHANGED <<disk, hadm_ids_json, out_files, svc, chat, hist, kvt, eng, inv, url, con>>
    /\ UNCHANGED orchVars
    /\ UNCHANGED subVars

\* ------------------------------------------------------------ hadm_ids.json
\* hadm ids of the cohort and the id lists an invocation can be given
\* (_unique_keep_order: no id twice).
HadmIds == {1, 2, 3}

IdLists ==
    {l \in UNION {[1..n -> HadmIds] : n \in 1..Cardinality(HadmIds)} :
        \A i, j \in 1..Len(l) : i # j => l[i] # l[j]}

InvIdle == [kind |-> "none", hadm_ids |-> << >>, existing_hadm_ids |-> << >>]

\* An orchestrator run on the output directory, as hadm_ids.json sees it: main
\* writes hadm_ids_stable; every Stage-1 subprocess of the run then finds a
\* list that holds its document and leaves the content as it is.
main_hadm_ids(hadm_ids) ==
    /\ inv.kind # "none"
    /\ hadm_ids_json' = StableIds(hadm_ids, hadm_ids_json)
    /\ inv' = [kind |-> "main", hadm_ids |-> hadm_ids, existing_hadm_ids |-> hadm_ids_json]
    /\ UNCHANGED <<disk, out_files, svc, chat, hist, kvt, eng, req, url, con>>
    /\ UNCHANGED <<args, opc, idx, hadm_ids_stable, ok, skipped, failed, timings_rows,
                   lora_scale>>
    /\ UNCHANGED subVars

\* A Stage-1 invocation of the pipeline script on the output directory.
run_stage1_hadm_ids(hadm_ids) ==
    /\ inv.kind # "none"
    /\ hadm_ids_json' = Stage1Ids(hadm_ids, hadm_ids_json)
    /\ inv' = [kind |-> "stage1", hadm_ids |-> hadm_ids, existing_hadm_ids |-> hadm_ids_json]
    /\ UNCHANGED <<disk, out_files, svc, chat, hist, kvt, eng, req, url, con>>
    /\ UNCHANGED <<args, opc, idx, hadm_ids_stable, ok, skipped, failed, timings_rows,
                   lora_scale>>
    /\ UNCHANGED subVars

\* ------------------------------------------------------------- risk engine
\* ReadmissionRiskEngine.score_from_toon on a KVT4 stream with at most one
\* line per keyword (what the normalizer emits).  A stream is the function
\* from the keywords to the value of their line ("absent": no line).
EngCluster ==
    [k \in {"Heart Rate", "Systolic BP"} |-> "VITALS"]
        @@ [k \in {"WBC"} |-> "LABS"]
        @@ [k \in {"Prior Admissions 12mo"} |-> "UTILIZATION"]
        @@ [k \in {"Any Procedure", "Surgery"} |-> "PROCEDURES"]
        @@ [k \in {"Mental Status", "Discharge Disposition"} |-> "DISPOSITION"]

EngKeywords == DOMAIN EngCluster

\* Values the line of a keyword can carry.
EngValues ==
    [k \in {"Heart Rate"} |-> {80, 120, 500}]
        @@ [k \in {"Systolic BP"} |-> {90}]
        @@ [k \in {"WBC"} |-> {15}]
        @@ [k \in {"Prior Admissions 12mo"} |-> {0, 2, 50}]
        @@ [k \in {"Any Procedure", "Surgery"} |-> {"yes"}]
        @@ [k \in {"Mental Status"} |-> {"confused"}]
        @@ [k \in {"Discharge Disposition"} |-> {"Home", "Home with Services"}]

EngNumeric == {k \in EngKeywords : EngCluster[k] \in {"VITALS", "LABS", "UTILIZATION"}}

\* The value standing for "no line" (None): numeric values are never negative.
Absent(k) == IF k \in EngNumeric THEN -1 ELSE "absent"

Toons ==
    {n @@ c :
        n \in {t \in [EngNumeric -> {-1, 0, 2, 15, 50, 80, 90, 120, 500}] :
                  \A k \in EngNumeric : t[k] = -1 \/ t[k] \in EngValues[k]},
        c \in {t \in [EngKeywords \ EngNumeric ->
                         {"absent", "yes", "confused", "Home", "Home with Services"}] :
                  \A k \in EngKeywords \ EngNumeric : t[k] = "absent" \/ t[k] \in EngValues[k]}}

\* scoring_rules.json: per keyword the range table and the plausibility bounds
\* (numeric keywords) or the value table (categorical keywords).  The points of
\* three entries vary from one bundle to another.
ScoringRules(surgery, any_procedure, services) ==
    [ranges |->
        [k \in {"Heart Rate"} |-> << [min |-> 101, max |-> 999, score |-> 3] >>]
            @@ [k \in {"Systolic BP"} |-> << [min |-> 0, max |-> 89, score |-> 4] >>]
            @@ [k \in {"WBC"} |-> << [min |-> 12, max |-> 999, score |-> 2] >>]
            @@ [k \in {"Prior Admissions 12mo"} |->
                    << [min |-> 1, max |-> 2, score |-> 3],
                       [min |-> 3, max |-> 999, score |-> 6] >>],
     plausibility |->
        [k \in {"Heart Rate"} |-> [min |-> 20, max |-> 300]]
            @@ [k \in {"Systolic BP"} |-> [min |-> 40, max |-> 300]]
            @@ [k \in {"WBC"} |-> [min |-> 0, max |-> 200]]
            @@ [k \in {"Prior Admissions 12mo"} |-> [min |-> 0, max |-> 20]],
     values |->
        [k \in {"Surgery"} |-> [v \in {"yes"} |-> surgery]]
            @@ [k \in {"Any Procedure"} |-> [v \in {"yes"} |-> any_procedure]]
            @@ [k \in {"Mental Status"} |-> [v \in {"confused"} |-> 3]]
            @@ [k \in {"Discharge Disposition"} |->
                    [v \in {"Home"} |-> 0] @@ [v \in {"Home with Services"} |-> services]],
     missing_score |-> 2]

RuleBundles ==
    {ScoringRules(surgery, 2, services) : surgery \in {1, 4}, services \in {2, 6}}

\* _check_plausibility
CheckPlausibility(rules, keyword, value) ==
    IF keyword \in DOMAIN rules.plausibility
    THEN rules.plausibility[keyword].min <= value /\ value <= rules.plausibility[keyword].max
    ELSE TRUE

\* parse_toon: the ParsedFact of every line.
ParseToon(rules, toon) ==
    [k \in {x \in EngKeywords : toon[x] # Absent(x)} |->
        LET is_numeric == k \in EngNumeric
        IN [cluster |-> EngCluster[k], keyword |-> k, value |-> toon[k],
            is_numeric |-> is_numeric,
            plausibility_ok |-> IF is_numeric THEN CheckPlausibility(rules, k, toon[k])
                                ELSE TRUE]]

\* _score_range_keyword: the score of the first range holding the value.
RECURSIVE ScoreRange(_, _, _)
ScoreRange(ranges, value, i) ==
    IF i > Len(ranges) THEN 0
    ELSE IF ranges[i].min <= value /\ value <= ranges[i].max THEN ranges[i].score
    ELSE ScoreRange(ranges, value, i + 1)

ScoreRangeKeyword(rules, keyword, value) ==
    IF keyword \in DOMAIN rules.ranges THEN ScoreRange(rules.ranges[keyword], value, 1) ELSE 0

\* kw_rules["values"].get(val, 0)
ScoreValue(rules, keyword, value) ==
    IF keyword \in DOMAIN rules.values /\ value \in DOMAIN rules.values[keyword]
    THEN rules.values[keyword][value] ELSE 0

\* sum of the points of the facts of a cluster
RECURSIVE SumOver(_, _)
SumOver(keys, pts) ==
    IF keys = {} THEN 0
    ELSE LET k == CHOOSE x \in keys : TRUE
         IN pts[k] + SumOver(keys \ {k}, pts)

InCluster(facts, cluster) == {k \in DOMAIN facts : facts[k].cluster = cluster}

Min(a, b) == IF a <= b THEN a ELSE b

\* score_demographics without an Age line: the missing-age default.
ScoreDemographics(rules) == rules.missing_score

\* score_vitals, score_labs
ScoreVitalsLabs(rules, facts, cluster) ==
    SumOver(InCluster(facts, cluster),
            [k \in InCluster(facts, cluster) |->
                IF ~facts[k].is_numeric \/ ~facts[k].plausibility_ok THEN 0
                ELSE ScoreRangeKeyword(rules, k, facts[k].value)])

\* score_procedures
ScoreProcedures(rules, facts) ==
    LET specific == IF "Surgery" \in DOMAIN facts
                    THEN ScoreValue(rules, "Surgery", facts["Surgery"].value) ELSE 0
        fallback == IF specific = 0 /\ "Any Procedure" \in DOMAIN facts
                    THEN ScoreValue(rules, "Any Procedure", facts["Any Procedure"].value)
                    ELSE 0
    IN Min(specific + fallback, 15)

\* score_utilization
ScoreUtilization(rules, facts) ==
    Min(SumOver(InCluster(facts, "UTILIZATION"),
                [k \in InCluster(facts, "UTILIZATION") |->
                    IF ~facts[k].is_numeric THEN 0
                    ELSE ScoreRangeKeyword(rules, k, facts[k].value)]),
        20)

\* score_disposition
ScoreDisposition(rules, facts) ==
    Min(SumOver(InCluster(facts, "DISPOSITION"),
                [k \in InCluster(facts, "DISPOSITION") |->
                    ScoreValue(rules, k, facts[k].value)]),
        15)

\* detect_interactions.get_val (-1 for None) / get_str ("none" for None)
GetVal(facts, keyword) ==
    IF keyword \in DOMAIN facts /\ facts[keyword].is_numeric THEN facts[keyword].value
    ELSE -1

GetStr(facts, keyword) ==
    IF keyword \in DOMAIN facts
    THEN (IF facts[keyword].value = "Home" THEN "home"
          ELSE IF facts[keyword].value = "Home with Services" THEN "home with services"
          ELSE facts[keyword].value)
    ELSE "none"

\* detect_interactions: the patterns whose gating keywords a stream can carry
\* (the other six need a keyword that is absent, and stay silent).
DetectInteractions(facts) ==
    LET hr == GetVal(facts, "Heart Rate")
        sbp == GetVal(facts, "Systolic BP")
        wbc == GetVal(facts, "WBC")
        mental == GetStr(facts, "Mental Status")
        disp == GetStr(facts, "Discharge Disposition")
        has_hemodynamic == sbp # -1 /\ sbp < 100
        has_infection == wbc # -1 /\ (wbc > 12 \/ wbc < 4)
    IN (IF hr # -1 /\ hr > 100 /\ has_hemodynamic /\ has_infection
        THEN {[pattern_id |-> "sepsis_pattern", bonus |-> 10]} ELSE {})
       \cup
       (IF disp = "ama" \/ (mental \in {"confused", "lethargic"} /\ disp \in {"home", "none"})
        THEN {[pattern_id |-> "unstable_discharge", bonus |-> 5]} ELSE {})

InteractionBonus(interactions) ==
    (IF \E i \in interactions : i.pattern_id = "sepsis_pattern" THEN 10 ELSE 0)
        + (IF \E i \in interactions : i.pattern_id = "unstable_discharge" THEN 5 ELSE 0)

\* score: the cluster scores, the interactions and the composite.
Score(rules, facts) ==
    LET cluster_scores ==
            [DEMOGRAPHICS |-> ScoreDemographics(rules),
             VITALS |-> ScoreVitalsLabs(rules, facts, "VITALS"),
             LABS |-> ScoreVitalsLabs(rules, facts, "LABS"),
             PROCEDURES |-> ScoreProcedures(rules, facts),
             UTILIZATION |-> ScoreUtilization(rules, facts),
             DISPOSITION |-> ScoreDisposition(rules, facts)]
        interactions == DetectInteractions(facts)
    IN [cluster_scores |-> cluster_scores,
        interactions_triggered |-> interactions,
        composite_score |->
            cluster_scores.DEMOGRAPHICS + cluster_scores.VITALS + cluster_scores.LABS
                + cluster_scores.PROCEDURES + cluster_scores.UTILIZATION
                + cluster_scores.DISPOSITION + InteractionBonus(interactions)]

\* score_from_toon
ScoreFromToon(rules, toon) == Score(rules, ParseToon(rules, toon))

NoResult == [cluster_scores |-> << >>, interactions_triggered |-> {}, composite_score |-> -1]

EngIdle ==
    [pc |-> "idle", rules |-> << >>, toon |-> << >>, first |-> NoResult,
     edit |-> "none", keyword |-> "none", before |-> << >>, second |-> NoResult]

\* One call of score_from_toon; the engine keeps nothing between calls.
eng_score ==
    /\ eng.pc = "input"
    /\ eng' = IF eng.edit = "none"
              THEN [eng EXCEPT !.pc = "scored",
                               !.first = ScoreFromToon(eng.rules, eng.toon)]
              ELSE [eng EXCEPT !.pc = "rescored",
                               !.second = ScoreFromToon(eng.rules, eng.toon)]
    /\ UNCHANGED <<disk, hadm_ids_json, out_files, svc, chat, hist, kvt, inv, req, url, con>>
    /\ UNCHANGED orchVars
    /\ UNCHANGED subVars

\* The caller's next stream: the scored one with one more line.
eng_add(keyword, value) ==
    /\ eng.pc = "scored"
    /\ eng.toon[keyword] = Absent(keyword)
    /\ eng' = [eng EXCEPT !.pc = "input", !.edit = "add", !.keyword = keyword,
                          !.before = eng.toon, !.toon[keyword] = value]
    /\ UNCHANGED <<disk, hadm_ids_json, out_files, svc, chat, hist, kvt, inv, req, url, con>>
    /\ UNCHANGED orchVars
    /\ UNCHANGED subVars

\* The caller's next stream: the scored one with the value of one numeric
\* line raised.
eng_raise(keyword, value) ==
    /\ eng.pc = "scored"
    /\ keyword \in EngNumeric
    /\ eng.toon[keyword] # Absent(keyword)
    /\ eng.toon[keyword] < value
    /\ eng' = [eng EXCEPT !.pc = "input", !.edit = "raise", !.keyword = keyword,
                          !.before = eng.toon, !.toon[keyword] = value]
    /\ UNCHANGED <<disk, hadm_ids_json, out_files, svc, chat, hist, kvt, inv, req, url, con>>
    /\ UNCHANGED orchVars
    /\ UNCHANGED subVars


\* ------------------------------------------------------------ specification
run_stage1 ==
    \/ \E available \in BOOLEAN : run_stage1_start(available)
    \/ run_stage1_check
    \/ \E o \in Stage1Outcomes : run_stage1_strategy(o)
    \/ run_stage1_loop_done
    \/ \E o \in Stage1Outcomes : run_stage1_hygiene(o)
    \/ \E o \in Stage1Outcomes, baseline \in BOOLEAN : run_stage1_compact(o, baseline)
    \/ \E o \in Stage1Outcomes, baseline \in BOOLEAN : run_stage1_trimmed(o, baseline)
    \/ \E o \in Stage1Outcomes, baseline \in BOOLEAN : run_stage1_placeholder(o, baseline)
    \/ \E o \in Stage1Outcomes : run_stage1_baseline(o)
    \/ run_stage1_write

run_stage2 ==
    \/ \E available \in BOOLEAN : run_stage2_start(available)
    \/ run_stage2_check
    \/ \E c \in Stage2Outcomes, retry_on_low_valid \in BOOLEAN :
          \E min_total \in (IF retry_on_low_valid THEN MinRawLinesEnv
                             ELSE {RetryMinRawLinesDefault}) :
              run_stage2_call(c, retry_on_low_valid, min_total)
    \/ \E c \in RetryOutcomes : run_stage2_retry(c)
    \/ \E kept \in {"empty", "some"}, injected \in BOOLEAN :
          run_stage2_write_facts(kept, injected)
    \/ \E normalized \in {"empty", "some"} : run_stage2_write_norm(normalized)
    \/ run_stage2_write_metrics

worker == run_stage1 \/ run_stage2

\* ------------------------------------------------------------------ URL normalization
\* A URL is held in parsed form: scheme ("" when the text has no "://"), netloc and
\* the path as a sequence of tokens; "/" is the separator token, so "/v1beta" is
\* <<"/", "v1", "beta">>.  The empty text is the record with an empty netloc.
MaxPath == 5

PathTokens == {"/", "v1", "beta", "api", "chat"}

Paths == {p \in SeqsUpTo(PathTokens, MaxPath) : p = << >> \/ p[1] = "/"}

Url(scheme, netloc, path) == [scheme |-> scheme, netloc |-> netloc, path |-> path]

EmptyUrl == Url("", "", << >>)

Urls == {Url(sc, "host", p) : sc \in {"", "http", "https"}, p \in Paths} \cup {EmptyUrl}

\* str.rstrip("/") on a path
RECURSIVE RStripSlash(_)
RStripSlash(p) ==
    IF p # << >> /\ p[Len(p)] = "/" THEN RStripSlash(SubSeq(p, 1, Len(p) - 1)) ELSE p

\* path.find("/v1"): index of the first "/" followed by "v1", 0 for -1
V1Idx(p) ==
    LET hits == {i \in 1..(Len(p) - 1) : p[i] = "/" /\ p[i + 1] = "v1"}
    IN  IF hits = {} THEN 0 ELSE CHOOSE i \in hits : \A j \in hits : i <= j

NormalizeUrls(u) ==
    IF u = EmptyUrl THEN <<EmptyUrl, Url("", "", <<"/", "v1">>)>>
    ELSE
        LET scheme == IF u.scheme = "" THEN "http" ELSE u.scheme
            path   == RStripSlash(u.path)
            v1_idx == V1Idx(path)
            after  == IF v1_idx = 0 THEN << >> ELSE SubSeq(path, v1_idx + 2, Len(path))
            cut    == IF v1_idx # 0 /\ (after = << >> \/ after[1] = "/")
                      THEN SubSeq(path, 1, v1_idx - 1)
                      ELSE path
            root   == Url(scheme, u.netloc, RStripSlash(cut))
        IN  <<root, Url(root.scheme, root.netloc, root.path \o <<"/", "v1">>)>>

UrlIdle == [kind |-> "none", input |-> EmptyUrl, root |-> EmptyUrl, v1 |-> EmptyUrl]

normalize_urls ==
    /\ url.kind = "start"
    /\ LET r == NormalizeUrls(url.input)
       IN  url' = [url EXCEPT !.kind = "done", !.root = r[1], !.v1 = r[2]]
    /\ UNCHANGED <<disk, hadm_ids_json, out_files, svc, chat, hist, kvt, eng, inv, req, con>>
    /\ UNCHANGED <<orchVars, subVars>>

\* ------------------------------------------------- concurrent orchestrators
\* Two orchestrator processes on one output directory, as hadm_ids.json sees
\* them: each reads the file and chooses its hadm_ids_stable, writes it, and
\* for every document runs the Stage-1 subprocess (unless stage1.md is reused
\* or the document is skipped) and writes hadm_ids_stable again.
Orchs == {"a", "b"}

OrchIdle == [pc |-> "none", hadm_ids |-> << >>, hadm_ids_stable |-> << >>, idx |-> 1]

ConIdle == [p \in Orchs |-> OrchIdle]

\* _safe_load_hadm_ids_json and the choice of hadm_ids_stable
con_main_load(p) ==
    /\ con[p].pc = "start"
    /\ con' = [con EXCEPT ![p].pc = "write",
                          ![p].hadm_ids_stable = StableIds(con[p].hadm_ids, hadm_ids_json)]
    /\ UNCHANGED <<disk, hadm_ids_json, out_files, svc, chat, hist, kvt, eng, inv, req, url>>
    /\ UNCHANGED <<orchVars, subVars>>

\* hadm_ids_path.write_text(hadm_ids_stable) before the loop
con_main_write(p) ==
    /\ con[p].pc = "write"
    /\ hadm_ids_json' = con[p].hadm_ids_stable
    /\ con' = [con EXCEPT ![p].pc = "loop"]
    /\ UNCHANGED <<disk, out_files, svc, chat, hist, kvt, eng, inv, req, url>>
    /\ UNCHANGED <<orchVars, subVars>>

\* One document up to the end of its subprocesses; stage1: the Stage-1
\* subprocess ran (run_stage1 rewrites hadm_ids.json for its one document).
con_document(p, stage1) ==
    /\ con[p].pc = "loop"
    /\ con[p].idx <= Len(con[p].hadm_ids)
    /\ hadm_ids_json' = IF stage1
                        THEN Stage1Ids(<<con[p].hadm_ids[con[p].idx]>>, hadm_ids_json)
                        ELSE hadm_ids_json
    /\ con' = [con EXCEPT ![p].pc = "doc_end"]
    /\ UNCHANGED <<disk, out_files, svc, chat, hist, kvt, eng, inv, req, url>>
    /\ UNCHANGED <<orchVars, subVars>>

\* hadm_ids_path.write_text(hadm_ids_stable) after the document (skipped, ok
\* or failed with --continue-on-error)
con_doc_end(p) ==
    /\ con[p].pc = "doc_end"
    /\ hadm_ids_json' = con[p].hadm_ids_stable
    /\ con' = [con EXCEPT ![p].pc = "loop", ![p].idx = con[p].idx + 1]
    /\ UNCHANGED <<disk, out_files, svc, chat, hist, kvt, eng, inv, req, url>>
    /\ UNCHANGED <<orchVars, subVars>>

\* The loop is over: timings and summary, exit.
con_finish(p) ==
    /\ con[p].pc = "loop"
    /\ con[p].idx > Len(con[p].hadm_ids)
    /\ con' = [con EXCEPT ![p].pc = "done"]
    /\ UNCHANGED <<disk, hadm_ids_json, out_files, svc, chat, hist, kvt, eng, inv, req, url>>
    /\ UNCHANGED <<orchVars, subVars>>

\* Nothing on disk, no process started.
InitCore ==
    /\ disk = NoDisk
    /\ hadm_ids_json = << >>
    /\ out_files = NoOutFiles
    /\ args = NoArgs
    /\ opc \in {"idle", "svc_idle"}
    /\ idx = 1
    /\ hadm_ids_stable = << >>
    /\ ok = 0 /\ skipped = 0 /\ failed = 0
    /\ timings_rows = << >>
    /\ lora_scale = "none"
    /\ spc = "none" /\ sdoc = 0
    /\ s1 = S1Idle /\ s2 = S2Idle
    /\ svc = SvcIdle
    /\ chat = ChatIdle
    /\ hist = HistIdle

Init ==
    /\ InitCore
    /\ kvt = KvtIdle
    /\ eng = EngIdle
    /\ inv = InvIdle
    /\ req = ReqIdle
    /\ url = UrlIdle
    /\ con = ConIdle

Next ==
    \/ \E a \in ArgsSet : main_start(a)
    \/ \E post_ok \in BOOLEAN : main_loop(post_ok)
    \/ main_stage1_done
    \/ \E post_ok \in BOOLEAN : main_stage2_pre(post_ok)
    \/ main_stage2_done
    \/ main_finish
    \/ interrupt
    \/ \E hadm \in Docs : svc_start(hadm)
    \/ \E fallback_to_mock_on_error \in BOOLEAN : svc_stage1_done(fallback_to_mock_on_error)
    \/ \E fallback_to_mock_on_error \in BOOLEAN : svc_stage2_done(fallback_to_mock_on_error)
    \/ \E stage1_kvt4 \in {"empty", "some"}, stage2_kvt4 \in {"empty", "some"} :
          svc_read(stage1_kvt4, stage2_kvt4)
    \/ \E normalized_lines \in {"empty", "some"}, present \in 1..NumClusters :
          svc_score(normalized_lines, present)
    \/ \E normalized_lines \in {"empty", "some"}, present \in 1..NumClusters :
          svc_mock(normalized_lines, present)
    \/ worker

Spec == Init /\ [][Next]_vars

\* One chat client serving calls one after the other.
NextChat ==
    \/ \E response_format \in ResponseFormats : chat_begin(response_format)
    \/ \E r \in Replies : chat_first(r)
    \/ \E r \in Replies : chat_second(r)
    \/ \E r \in Replies : chat_third(r)

InitChat == Init /\ opc = "idle"

SpecChat == InitChat /\ [][NextChat]_vars

\* run_stage1 on one document, started by the demo service, beside the chat
\* client that carries out its model calls.
InitCalls ==
    /\ Init
    /\ opc = "svc_idle"

NextCalls ==
    \/ \E hadm \in Docs : svc_start(hadm)
    \/ run_stage1
    \/ NextChat

SpecCalls == InitCalls /\ [][NextCalls]_vars

\* One line list through the Stage-2 post-processing and the service merge,
\* or one record through serialization and the parser.
InitKvt ==
    /\ InitCore
    /\ opc = "idle"
    /\ eng = EngIdle
    /\ inv = InvIdle
    /\ req = ReqIdle
    /\ kvt \in {[KvtIdle EXCEPT !.pc = "sanitize", !.lines = l, !.stage1_kvt4 = e] :
                    l \in SeqsUpTo(KvtLines, MaxLines), e \in Stage1Exports}
               \cup {[KvtIdle EXCEPT !.pc = "serialize", !.record = r] :
                        r \in WellFormedRecords}
    /\ url = UrlIdle
    /\ con = ConIdle

NextKvt ==
    \/ \E scope \in {"all", "objective"}, objective_ts_canonical_all \in BOOLEAN :
          kvt_sanitize(scope, objective_ts_canonical_all)
    \/ kvt_write_facts
    \/ kvt_normalize
    \/ kvt_service_merge
    \/ kvt_serialize
    \/ kvt_extract

SpecKvt == InitKvt /\ [][NextKvt]_vars

\* One engine, one stream scored, then the stream edited and scored again.
InitEng ==
    /\ InitCore
    /\ opc = "idle"
    /\ kvt = KvtIdle
    /\ inv = InvIdle
    /\ req = ReqIdle
    /\ eng \in {[EngIdle EXCEPT !.pc = "input", !.rules = r, !.toon = t] :
                    r \in RuleBundles, t \in Toons}
    /\ url = UrlIdle
    /\ con = ConIdle

NextEng ==
    \/ eng_score
    \/ \E keyword \in EngKeywords : \E value \in EngValues[keyword] : eng_add(keyword, value)
    \/ \E keyword \in EngKeywords : \E value \in EngValues[keyword] : eng_raise(keyword, value)

SpecEng == InitEng /\ [][NextEng]_vars

\* Two runs of Stage-2 over one document: the same configuration, and for
\* each run the note and the stage1.md it finds.
InitReq ==
    /\ InitCore
    /\ opc = "idle"
    /\ kvt = KvtIdle
    /\ eng = EngIdle
    /\ inv = InvIdle
    /\ req \in {[ReqIdle EXCEPT !.pc = "runs", !.cfg = c, !.doc = d] :
                    c \in Stage2Configs,
                    d \in [Runs -> [note : NoteTexts, stage1_md : Stage1Mds]]}
    /\ url = UrlIdle
    /\ con = ConIdle

NextReq == \E r \in Runs : run_stage2_request(r)

SpecReq == InitReq /\ [][NextReq]_vars

\* Invocations on one output directory, from an empty one on.
InitIds ==
    /\ InitCore
    /\ opc = "idle"
    /\ kvt = KvtIdle
    /\ eng = EngIdle
    /\ req = ReqIdle
    /\ inv = [InvIdle EXCEPT !.kind = "start"]
    /\ url = UrlIdle
    /\ con = ConIdle

NextIds ==
    \/ \E hadm_ids \in IdLists : main_hadm_ids(hadm_ids)
    \/ \E hadm_ids \in IdLists : run_stage1_hadm_ids(hadm_ids)

SpecIds == InitIds /\ [][NextIds]_vars

\* one call of _normalize_urls on each URL of the vocabulary
InitUrl ==
    /\ InitCore
    /\ kvt = KvtIdle
    /\ eng = EngIdle
    /\ inv = InvIdle
    /\ req = ReqIdle
    /\ url \in {[UrlIdle EXCEPT !.kind = "start", !.input = u] : u \in Urls}
    /\ con = ConIdle

NextUrl == normalize_urls

SpecUrl == InitUrl /\ [][NextUrl]_vars

\* two orchestrators started on disjoint document sets, the directory empty
InitCon ==
    /\ InitCore
    /\ opc = "idle"
    /\ kvt = KvtIdle
    /\ eng = EngIdle
    /\ inv = InvIdle
    /\ req = ReqIdle
    /\ url = UrlIdle
    /\ con \in {[p \in Orchs |->
                    [OrchIdle EXCEPT !.pc = "start",
                                     !.hadm_ids = IF p = "a" THEN la ELSE lb]] :
                    <<la, lb>> \in {x \in IdLists \X IdLists :
                                        Range(x[1]) \cap Range(x[2]) = {}}}

NextCon ==
    \E p \in Orchs :
        \/ con_main_load(p)
        \/ con_main_write(p)
        \/ \E stage1 \in BOOLEAN : con_document(p, stage1)
        \/ con_doc_end(p)
        \/ con_finish(p)

SpecCon == InitCon /\ [][NextCon]_vars

\* ------------------------------------------------------------------ claims
NoOverwrite(a) == ~a.overwrite_stage1 /\ ~a.overwrite_stage2

Stage2Output(dir) ==
    \/ dir.stage2_raw # "absent" \/ dir.stage2_raw_retry1
    \/ dir.stage2_facts # "absent" \/ dir.stage2_normalized # "absent"
    \/ dir.stage2_metrics # "absent"

\* C1: a run killed while a document was partly written, then re-run with the
\* same arguments and no overwrite flags: when the re-run ends without a
\* failed document (and Stage-1 never gave up on the document), that document
\* has stage1.json, stage1.md, stage2_facts.txt and stage2_normalized.json.
C1_ResumeCompletes ==
    (/\ opc = "done" /\ failed = 0 /\ hist.resume_doc # 0
     /\ ~disk[hist.resume_doc].stage1_error)
        => Complete(disk[hist.resume_doc])

\* C2: a Stage-2 model call is made, and Stage-2 files are written, only with
\* stage1.json and stage1.md of that document on disk and no Stage-1 worker
\* running; the service scores a pipeline result only after the Stage-2
\* subprocess has returned.
C2_StageOrder ==
    /\ spc \in {"s2_call", "s2_retry", "s2_write_facts", "s2_write_norm", "s2_write_metrics"}
          => disk[sdoc].stage1_json /\ disk[sdoc].stage1_md
    /\ (svc.backend_mode = "pipeline" /\ ~svc.error /\ svc.risk # "unset")
          => hist.stage2_returned /\ spc = "none"
    /\ opc \in {"svc_read", "svc_score"} => hist.stage2_returned /\ spc = "none"

C2_Witness ==
    /\ opc = "svc_done" /\ svc.backend_mode = "pipeline"
    /\ svc.risk = "RiskResult" /\ svc.stage2_facts = "some"

\* C3 (as stated): a re-run without overwrite flags over documents that are
\* all complete writes no file, starts no model or adapter request and leaves
\* every document directory as it was.
C3_NoWritesAtAll ==
    (hist.complete0 /\ NoOverwrite(args)) =>
        /\ ~hist.cross_writes /\ ~hist.doc_writes /\ ~hist.requests
        /\ disk = hist.disk0

\* C3 (amended): such a re-run writes no file of any document directory,
\* starts no model or adapter request and leaves every document directory as
\* it was; it rewrites only the id lists, the timings CSV and the summary.
C3_NoDocumentWrites ==
    (hist.complete0 /\ NoOverwrite(args)) =>
        /\ ~hist.doc_writes /\ ~hist.requests
        /\ disk = hist.disk0
        /\ spc = "none"
        /\ opc = "done" => /\ skipped = Len(args.hadm_ids)
                           /\ out_files.written /\ out_files.summary.skipped = skipped

C3_Witness ==
    /\ opc = "done" /\ hist.complete0 /\ NoOverwrite(args)
    /\ skipped = Len(args.hadm_ids) /\ hist.cross_writes

\* C4: with --continue-on-error the run is never aborted by a failure of one
\* document, and a finished run has one status row per requested document,
\* ok + skipped + failed being their number.
C4_ContinueOnError ==
    args.continue_on_error =>
        /\ opc # "aborted"
        /\ opc = "done" =>
              /\ ok + skipped + failed = Len(args.hadm_ids)
              /\ Len(timings_rows) = Len(args.hadm_ids)
              /\ \A i \in 1..Len(timings_rows) : timings_rows[i].hadm_id = args.hadm_ids[i]

\* C5: at the end of a run, a document left with stage1_error.json, without
\* Stage-1 artifacts and without Stage-2 output has the status failed in the
\* timings and is counted in the summary's failed total.
C5_Stage1FailureRecorded ==
    opc = "done" =>
        \A i \in 1..Len(timings_rows) :
            LET dir == disk[timings_rows[i].hadm_id]
            IN (dir.stage1_error /\ ~dir.stage1_md /\ ~dir.stage1_json /\ ~Stage2Output(dir))
                  => /\ timings_rows[i].status = "failed"
                     /\ out_files.summary.failed > 0

\* C6: a document directory that holds stage1_error.json holds neither
\* stage2_facts.txt nor stage2_normalized.json.
C6_ErrorExcludesStage2 ==
    \A d \in Docs :
        disk[d].stage1_error =>
            disk[d].stage2_facts = "absent" /\ disk[d].stage2_normalized = "absent"

\* C7: when Stage-1 ended without a parseable nine-key JSON object
\* (stage1_meta.json has json_parse_ok false), no Stage-2 model call is made
\* for the document and no stage2_* file is written for it.
C7_ParseFailureStopsStage2 ==
    /\ \A d \in Docs : disk[d].stage1_meta = "no" => ~Stage2Output(disk[d])
    /\ spc \in {"s2_call", "s2_retry"} => disk[sdoc].stage1_meta # "no"

\* C8: chat() with a response_format sends it first, then json_object, then
\* no response_format, each only after the one before failed and at most
\* three requests; it returns the text of the request that succeeded,
\* response_format_final is that request's format and
\* response_format_attempts lists the formats sent, in order.
C8_ResponseFormatFallback ==
    chat.response_format # "none" =>
        LET order == <<chat.response_format, "json_object", "none">>
            n == Len(chat.sent)
        IN /\ n <= 3
           /\ \A i \in 1..n : chat.sent[i].rf = order[i]
           /\ \A i \in 1..(n - 1) : ~chat.sent[i].ok
           /\ Len(chat.attempts) = n
           /\ \A i \in 1..n : chat.attempts[i] = RfType(chat.sent[i].rf)
           /\ chat.pc = "returned" =>
                 /\ n >= 1 /\ chat.sent[n].ok
                 /\ chat.text = chat.sent[n].text
                 /\ chat.response_format_final = RfType(chat.sent[n].rf)
           /\ chat.pc \in {"second", "third", "raised"} => n >= 1 /\ ~chat.sent[n].ok

C8_Witness ==
    /\ chat.pc = "returned" /\ chat.response_format = "json_schema"
    /\ Len(chat.sent) = 2 /\ chat.response_format_final = "json_object"

\* C9: Stage-2 asks for at most two completions per document; the retry is
\* made only when the first completion left no KVT4 line (after the
\* prompt-leakage filter) or its validity rate is below the threshold on at
\* least the minimum number of raw lines; after a retry stage2_raw.txt holds
\* the retry's completion exactly when the retry gave a KVT4 line.
C9_SingleRetry ==
    /\ s2.calls <= 2
    /\ spc = "s2_retry" =>
          /\ s2.calls = 1
          /\ \/ s2.lines = 0
             \/ /\ s2.raw_total0 >= s2.min_total
                /\ 100 * s2.raw_valid0 < RetryValidRateThresholdPct * s2.raw_total0
    /\ (spc = "s2_write_facts" /\ s2.calls = 2) =>
          (disk[sdoc].stage2_raw = "retry" <=> s2.lines > 0)

C9_Witness ==
    /\ spc = "s2_write_facts" /\ s2.calls = 2 /\ s2.low_valid_quality
    /\ disk[sdoc].stage2_raw = "retry" /\ disk[sdoc].stage2_raw_retry1

\* C10: a pipeline result of the service for a document whose Stage-2 gave
\* no KVT4 line even after the retry (empty stage2_facts.txt, empty
\* normalized stream) carries a risk result with confidence low.
C10_EmptyStreamScored ==
    (/\ opc = "svc_done" /\ svc.backend_mode = "pipeline" /\ ~svc.error
     /\ hist.retried /\ svc.stage2_facts = "empty" /\ svc.normalized_lines = "empty")
        => svc.risk = "RiskResult" /\ svc.confidence = "low"

\* The sanitizer has run on kvt.lines.
Sanitized0 == kvt.pc \in {"flags", "normalize", "service", "done"}

\* Input lines the sanitizer accepts as facts of an objective cluster.
ObjectiveInputs ==
    {i \in 1..Len(kvt.lines) :
        /\ ClusterUpper(kvt.lines[i].cluster) \in objective_clusters
        /\ kvt.lines[i].value # "not stated"
        /\ ClusterUpper(kvt.lines[i].cluster) \in numeric_clusters => NumRe(kvt.lines[i].value)}

InputKey(i) == <<ClusterUpper(kvt.lines[i].cluster), kvt.lines[i].keyword>>

\* The order Discharge > Admission > Past > Unknown.
PriorityRank(t) ==
    CASE t = "Discharge" -> 3 [] t = "Admission" -> 2 [] t = "Past" -> 1 [] OTHER -> 0

\* C11: after Stage-2 sanitation every objective (cluster, keyword) has at most
\* one record, and the record kept for a key is an input record of that key
\* whose timestamp ranks highest in Discharge > Admission > Past > Unknown
\* (its value, and its timestamp where the model's timestamps are kept).
C11_ObjectiveDedup ==
    Sanitized0 =>
        /\ \A j, k \in 1..Len(kvt.sanitized) :
              (kvt.sanitized[j].cluster \in objective_clusters
               /\ Key(kvt.sanitized[j]) = Key(kvt.sanitized[k])) => j = k
        /\ \A i \in ObjectiveInputs :
              \E j \in 1..Len(kvt.sanitized), w \in ObjectiveInputs :
                  /\ Key(kvt.sanitized[j]) = InputKey(i)
                  /\ InputKey(w) = InputKey(i)
                  /\ \A x \in ObjectiveInputs :
                        InputKey(x) = InputKey(i) =>
                            PriorityRank(kvt.lines[x].timestamp)
                                <= PriorityRank(kvt.lines[w].timestamp)
                  /\ kvt.sanitized[j].value = kvt.lines[w].value
                  /\ (kvt.scope = "all" /\ ~kvt.objective_ts_canonical_all)
                        => kvt.sanitized[j].timestamp = kvt.lines[w].timestamp

\* C12: every line of stage2_facts.txt and every line of the normalized stream
\* whose cluster is VITALS, LABS or UTILIZATION has a value matching
\* ^-?\d+(\.\d+)?$.
C12_NumericValues ==
    \A out \in {kvt.facts, kvt.normalized, kvt.merged} :
        \A j \in 1..Len(out) : out[j].cluster \in numeric_clusters => NumRe(out[j].value)

\* C13: the line VITALS|Blood Pressure|S/D|T through the sanitizer and the
\* normalizer yields exactly the two facts VITALS|Systolic BP|S|T and
\* VITALS|Diastolic BP|D|T.
C13_BloodPressureSplit ==
    \A t \in KvtTimestamps :
        (kvt.pc \in {"service", "done"}
         /\ kvt.lines = << Line("VITALS", "Blood Pressure", "140/90", t) >>)
            => /\ Len(kvt.normalized) = 2
               /\ Range(kvt.normalized) = {Line("VITALS", "Systolic BP", "140", t),
                                           Line("VITALS", "Diastolic BP", "90", t)}

\* C14: parsing the serialized line of a well-formed record returns exactly
\* that one record, its four fields unchanged.
C14_ParseSerialize ==
    kvt.pc = "parsed" =>
        kvt.parsed = << <<kvt.record.cluster, kvt.record.keyword, kvt.record.value,
                          kvt.record.timestamp>> >>

\* C18: for every VITALS or LABS keyword of stage1_facts.txt the normalized
\* stream that is scored has a fact of that keyword carrying the Stage-1 value,
\* whatever Stage-2 produced.
C18_Stage1ObjectiveKept ==
    kvt.pc = "done" =>
        \A i \in 1..Len(kvt.stage1_kvt4) :
            kvt.stage1_kvt4[i].cluster \in {"VITALS", "LABS"} =>
                \E j \in 1..Len(kvt.merged), x \in 1..Len(kvt.stage1_kvt4) :
                    /\ Key(kvt.merged[j]) = Key(kvt.stage1_kvt4[i])
                    /\ Key(kvt.stage1_kvt4[x]) = Key(kvt.stage1_kvt4[i])
                    /\ kvt.merged[j].value = FirstNumber(kvt.stage1_kvt4[x].value)

\* Points a line earns by itself in its cluster scorer under the rule bundle.
OwnPoints(rules, keyword, value) ==
    IF keyword \in EngNumeric
    THEN (IF CheckPlausibility(rules, keyword, value)
          THEN ScoreRangeKeyword(rules, keyword, value) ELSE 0)
    ELSE ScoreValue(rules, keyword, value)

\* C15: adding a line that earns points by itself, or raising a numeric value
\* into a range with more points, never lowers the composite score.
C15_MonotoneRisk ==
    (/\ eng.pc = "rescored"
     /\ \/ /\ eng.edit = "add"
           /\ OwnPoints(eng.rules, eng.keyword, eng.toon[eng.keyword]) > 0
        \/ /\ eng.edit = "raise"
           /\ OwnPoints(eng.rules, eng.keyword, eng.toon[eng.keyword])
                > OwnPoints(eng.rules, eng.keyword, eng.before[eng.keyword]))
        => eng.second.composite_score >= eng.first.composite_score

\* C16: a numeric line whose value lies outside the plausibility bounds of its
\* keyword earns no points in its cluster scorer and triggers no interaction
\* pattern: scoring the stream with it gives what the stream without it gave.
C16_ImplausibleIgnored ==
    (/\ eng.pc = "rescored"
     /\ eng.edit = "add"
     /\ eng.keyword \in EngNumeric
     /\ ~CheckPlausibility(eng.rules, eng.keyword, eng.toon[eng.keyword]))
        => /\ eng.second.cluster_scores = eng.first.cluster_scores
           /\ eng.second.interactions_triggered = eng.first.interactions_triggered

\* C20: stage2_metrics.json exists for a document only if the document has a
\* ground-truth file: a document without one never has stage2_metrics.json.
C20_MetricsOnlyWithGroundTruth ==
    \A d \in Docs \ HasGroundTruth : disk[d].stage2_metrics = "absent"

\* C19: no invocation removes an id from hadm_ids.json: the ids the file holds
\* after an invocation include the ids it held before it.
C19_StableSuperset == [][IsSubset(hadm_ids_json, hadm_ids_json')]_vars

C21_OnePlaceholderCall == s1.placeholder_calls <= 1

\* C22: the strategy loop of Stage-1 ends before the last strategy of the order
\* only with a valid digest: a strategy whose output is empty or not a
\* nine-key JSON object is followed by the next strategy.
C22_FirstValidStrategy ==
    (/\ spc = "s1_loop_done"
     /\ s1.strat # 0
     /\ s1.strat < Len(Strategies(sdoc)))
        => s1.parse_ok

\* C23: every record of stage2_facts.txt and of the normalized streams has a
\* cluster of the closed set of nine (a line with another cluster is dropped).
C23_ClosedClusterSet ==
    \A out \in {kvt.facts, kvt.normalized, kvt.merged} :
        \A j \in 1..Len(out) : out[j].cluster \in objective_clusters \cup semantic_clusters

\* positions of the path segments that are exactly "v1"
V1Segments(p) ==
    {i \in 1..(Len(p) - 1) :
        p[i] = "/" /\ p[i + 1] = "v1" /\ (i + 2 > Len(p) \/ p[i + 2] = "/")}

\* a path of non-empty segments without a trailing slash
PlainPath(p) ==
    /\ p = << >> \/ p[Len(p)] # "/"
    /\ \A i \in 1..(Len(p) - 1) : ~(p[i] = "/" /\ p[i + 1] = "/")

\* C24: for a root URL, a root followed by /v1 or an endpoint path under /v1 (a path
\* prefix and a missing scheme allowed), _normalize_urls returns as root the URL
\* cut before the /v1 segment, with the scheme defaulting to http, and as v1 that
\* root followed by /v1; a segment that only starts with v1 is not the /v1 segment.
C24_NormalizeUrls ==
    (/\ url.kind = "done"
     /\ url.input # EmptyUrl
     /\ PlainPath(url.input.path))
        => LET p    == url.input.path
               segs == V1Segments(p)
               cut  == IF segs = {} THEN p
                       ELSE SubSeq(p, 1, (CHOOSE i \in segs : \A j \in segs : i <= j) - 1)
               root == Url(IF url.input.scheme = "" THEN "http" ELSE url.input.scheme,
                           url.input.netloc, cut)
           IN  /\ url.root = root
               /\ url.v1 = Url(root.scheme, root.netloc, cut \o <<"/", "v1">>)

C26_PartialRunReported ==
    (opc = "aborted" /\ failed > 0)
        => /\ out_files.written
           /\ out_files.timings_csv = timings_rows
           /\ out_files.summary = [total |-> Len(args.hadm_ids), ok |-> ok,
                                   skipped |-> skipped, failed |-> failed]

\* C27: Stage-1 makes a bounded number of model calls on a document: at most one
\* per configured strategy, one hygiene retry, three compact retries, three
\* trimmed compact retries, one placeholder retry and one baseline fallback; a
\* call of the chat client sends at most three HTTP requests.
C27_BoundedCalls ==
    /\ sdoc # 0 =>
          /\ s1.strat <= Len(Strategies(sdoc))
          /\ s1.rf <= 3
          /\ s1.placeholder_calls <= 1 + 1
          /\ s1.calls <= Len(Strategies(sdoc)) + 1 + 3 + 3 + 1 + 1
    /\ Len(chat.sent) <= 3

\* the longest run on a long note (every strategy but the last raises, then all
\* retries and the baseline fallback), and a chat call of three requests
C27_Witness ==
    /\ sdoc \in LongNote
    /\ s1.calls = Len(Strategies(sdoc)) + 3 + 3 + 1 + 1
    /\ Len(chat.sent) = 3

\* C28: when the Stage-2 retry was made for a low validity rate (the first
\* completion gave KVT4 lines), the lines handed to the sanitizer after the retry
\* are not fewer than those of the first completion; they are the first
\* completion's when the retry gave none.
C28_RetryKeepsFirstLines ==
    [][(spc = "s2_retry" /\ spc' = "s2_write_facts" /\ s2.lines > 0)
          => s2'.lines >= s2.lines]_vars

\* C29: in a run with --overwrite-stage1 the Stage-1 subprocess of a document
\* that is not skipped goes on to a new model call, whatever Stage-1 artifacts
\* the document has.
C29_OverwriteRegenerates ==
    [][(/\ args.overwrite_stage1
        /\ opc = "stage1_wait" /\ opc' = "stage1_wait"
        /\ spc = "s1_check")
          => spc' = "s1_strategy"]_vars

\* C30: after two orchestrators that ran concurrently on disjoint document sets
\* with one output directory have both terminated, hadm_ids.json holds the ids
\* of all the documents of either.
C30_ConcurrentIdsUnion ==
    (\A p \in Orchs : con[p].pc = "done")
        => \A p \in Orchs : IsSubset(con[p].hadm_ids, hadm_ids_json)

====
